---- MODULE Spec2Model ----
(***************************************************************************)
(* Suggestion review engine of the commit and review pages: the shared     *)
(* action dispatcher (shared_ui.js), the API service (lastResponseMeta),   *)
(* the spam-click protection with its failsafe timer (commit_page.js,      *)
(* review.js) and the commit grouping of the review page.                  *)
(*                                                                         *)
(* One UI thread: every handler runs to completion; the only suspension    *)
(* points are the network awaits, timers and animations.                   *)
(***************************************************************************)
EXTENDS Integers, Sequences, FiniteSets

\* ---------------------------------------------------------------- bounds
\* cap on the requests in flight at the same time
MaxInFlight == 2

\* ------------------------------------------------------------ page model
\* F: field suggestion, T: tag proposal, M: move proposal, all three on note
\* card A; NA: removal request of note A (confirm / keep); NB: unreviewed note
\* B (publish / delete); Z: a publish control whose note id is blank (card C);
\* ND: note D of the commit, on the second page of the listing.
Items == {"F", "T", "M", "NA", "NB", "Z", "ND"}
NoteItems == {"NA", "NB", "ND"}

\* the pages the server renders: an item next to the note-level controls of
\* its own card, next to those of another card, or next to a blank control
Pages ==
  {{"F", "NA"}, {"T", "NA"}, {"M", "NA"}, {"F", "NB"}, {"NB", "Z"}}

Controls ==
  {"accept-field", "deny-field", "accept-tag", "deny-tag", "accept-move",
   "deny-move", "accept-note-removal", "deny-note-removal", "accept-note",
   "delete-note", "accept-note-noid"}

ItemOf(c) ==
  CASE c \in {"accept-field", "deny-field"} -> "F"
    [] c \in {"accept-tag", "deny-tag"} -> "T"
    [] c \in {"accept-move", "deny-move"} -> "M"
    [] c \in {"accept-note-removal", "deny-note-removal"} -> "NA"
    [] c \in {"accept-note", "delete-note"} -> "NB"
    [] OTHER -> "Z"

\* the note card an item is rendered in
CardOf(i) == IF i \in {"F", "T", "M", "NA"} THEN "NA" ELSE i

IsNoteAction(c) == ItemOf(c) \in {"NA", "NB", "Z"}

\* field contents are token sequences: "w", "v" words, "e" an escaped tag
\* (&lt;b&gt;), "t" a real tag, "1" a digit
Contents == {<<"w">>, <<"e", "v">>, <<"1">>}
\* tag names are character sequences
TagNames == {<<"x">>, <<"+", "x">>}
TagClasses == {"add", "remove"}

ResponseMetas == {"plain", "root", "other"}

\* --------------------------------------------------------------- helpers
Max(a, b) == IF a > b THEN a ELSE b

\* jQuery .data() on a data-* attribute: a string that reads as a number is
\* returned as that number, any other content of the model as the string
getData(attr) ==
  [num |-> attr # << >> /\ \A k \in 1..Len(attr) : attr[k] = "1",
   v |-> attr]

\* DOMParser + textContent: decodes the entities and drops the real tags
Decoded(html) ==
  LET kept == SelectSeq(html, LAMBDA x : x # "t")
  IN [k \in 1..Len(kept) |-> IF kept[k] = "e" THEN "t" ELSE kept[k]]

\* HtmlDiffUtils.unescapeHtml: '' for a value that is not a string
unescapeHtml(html) == IF html.num THEN << >> ELSE Decoded(html.v)

\* rendered html of a diff pane: a sequence of <<marker, token>>
Plain(h) == [k \in 1..Len(h) |-> <<"eq", h[k]>>]

\* the diff fragment the server renders into .diff-content
ServerDiff(b, c) ==
  IF Decoded(b) = Decoded(c) THEN Plain(Decoded(c))
  ELSE [k \in 1..Len(Decoded(b)) |-> <<"del", Decoded(b)[k]>>]
       \o [k \in 1..Len(Decoded(c)) |-> <<"ins", Decoded(c)[k]>>]

\* tagText.replace(/^[\+\s]*/, '') and tagText.replace(/^[\-\s]*/, '')
RECURSIVE StripLeading(_, _)
StripLeading(s, chars) ==
  IF s # << >> /\ Head(s) \in chars THEN StripLeading(Tail(s), chars) ELSE s

\* text of the proposal chip: the icon glyph followed by the tag content
ChipText(class, name) ==
  (IF class = "add" THEN <<"+", " ">> ELSE <<"-", " ">>) \o name

Chip(text) == [text |-> text, st |-> "shown"]

\* review.js groupSuggestionsByCommit: a suggestion that has a commit id is
\* moved into its commit group and loses the class 'suggestion-box'; the
\* result tells whether the element still carries the class
groupSuggestionsByCommit(hasCommitId) == ~hasCommitId

VARIABLES
  page,              \* what the server rendered: items, candidate, tag
  disabled,          \* prop('disabled') of every control
  cls,               \* controls carrying class 'disabled' (pointer-events none)
  t10, t5,           \* controls with a pending 10 ms / 5 s protection timer
  reqs,              \* requests in flight
  lastResponseMeta,  \* ApiService.lastResponseMeta
  view,              \* element of each item: shown, fading, removed
  anim,              \* note cards with a fade animation in progress
  dim,               \* items shown dimmed (opacity)
  actionsPresent,    \* items whose action buttons are still in the element
  content,           \* diff pane, baselines, published tags, move state
  paginationState,   \* loaded / total counters
  resolved,          \* 'note:resolved' notifications emitted per note card
  succeeded,         \* items one of whose requests has succeeded
  last,              \* the step that was taken last
  selection,         \* localStorage commit_select::<commit>: selected note ids
  checked,           \* note cards whose checkbox is checked
  bulkReqs,          \* bulk submissions in flight
  bulkBtnDisabled,   \* prop('disabled') of the bulk approve / deny buttons
  selBtnDisabled,    \* prop('disabled') of select-all / deselect-all
  bulkTimers,        \* cards marked bulk-success, removal due in 500 ms
  srvDone,           \* notes the server has resolved by a bulk submission
  loadedNotes,       \* notes whose card has been put into #notes-container
  loadMore,          \* the load-more request in flight: << >> or <<offset>>
  img,               \* the image in the published pane of another field of
                     \* note A: its element, and the requests of replaced ones
  handlers,          \* click.sharedUI dispatchers bound on the container
  restore,           \* sessionStorage fieldEditPanel_restoreState and the
                     \* restoration that runs when the page is ready
  panel,             \* the "edit all fields" panel of note A
  toggle             \* the source-view toggle of a note of the old commit page

\* the selection, bulk, pagination and image state of the commit page
commitVars == <<selection, checked, bulkReqs, bulkBtnDisabled, selBtnDisabled,
                bulkTimers, srvDone, loadedNotes, loadMore, img, handlers, restore, panel, toggle>>

vars == <<page, disabled, cls, t10, t5, reqs, lastResponseMeta, view, anim,
          dim, actionsPresent, content, paginationState, resolved, succeeded,
          last, selection, checked, bulkReqs, bulkBtnDisabled, selBtnDisabled,
          bulkTimers, srvDone, loadedNotes, loadMore, img, handlers, restore, panel, toggle>>

NoEvent == "other"

\* the dispatcher state without lastResponseMeta, and the selection,
\* pagination and image state
dispatchVars == <<page, disabled, cls, t10, t5, reqs, view, anim, dim,
                  actionsPresent, content, paginationState, resolved,
                  succeeded>>
selectionVars == <<selection, checked, bulkReqs, bulkBtnDisabled,
                   selBtnDisabled, bulkTimers, srvDone, loadedNotes,
                   loadMore, img, handlers>>

\* nothing stored and no restoration; no panel; a page without toggle
NoSnapshot ==
  [kind |-> "none", ts |-> "missing", age |-> 0, noteId |-> "",
   loaded |-> 0, scrollPosition |-> 0]
NoRestore ==
  [stored |-> NoSnapshot, snap |-> NoSnapshot, phase |-> "done", i |-> 0,
   maxIterations |-> 0, loaded |-> 0, nextOffset |-> << >>, fetches |-> 0,
   scroll |-> "none", highlight |-> FALSE, failed |-> FALSE,
   commitPage |-> TRUE, offsets |-> {}, reloaded |-> FALSE]
NoImage ==
  [pane |-> "baseline", st |-> "lazy", pending |-> 0, orphans |-> 0,
   gen |-> 0]
NoPanel ==
  [opening |-> "none", exists |-> FALSE, active |-> FALSE, fields |-> << >>,
   editors |-> << >>, comparison |-> TRUE, editBtnVisible |-> TRUE,
   editBtnDisabled |-> FALSE, saveDisabled |-> FALSE,
   cancelDisabled |-> FALSE, inFlight |-> FALSE, sent |-> {},
   reloadTimer |-> FALSE, reloads |-> 0, gone |-> FALSE,
   other |-> [opening |-> FALSE, exists |-> FALSE, active |-> FALSE]]
NoToggle ==
  [ready |-> FALSE, fields |-> << >>, label |-> "Show Source",
   prev |-> [html |-> << >>, label |-> "Show Source"]]

Init ==
  /\ \E its \in Pages, b \in {<<"w">>}, n \in Contents,
        tc \in TagClasses, tn \in TagNames, g \in BOOLEAN :
       \* one rendering per page: the field and tag inputs vary only when
       \* the item is on the page
       /\ "F" \notin its => (n = <<"w">> /\ ~g)
       /\ "T" \notin its => (tc = "add" /\ tn = <<"x">>)
       /\ tc = "remove" => tn = <<"x">>
       \* g: review page whose field suggestion groupSuggestionsByCommit has
       \* put into a commit group (class 'suggestion-box' taken off)
       /\ page = [items |-> its, new |-> n, tagClass |-> tc, tagName |-> tn,
                  grouped |-> g, blank |-> FALSE]
       /\ content =
            [diff |-> ServerDiff(b, n), original |-> getData(b),
             pubHtml |-> Plain(unescapeHtml(getData(b))),
             pubData |-> getData(b),
             isBox |-> groupSuggestionsByCommit(g),
             published |-> IF tc = "remove" THEN <<Chip(<<"y">>), Chip(tn)>>
                           ELSE <<Chip(<<"y">>)>>,
             moved |-> FALSE]
  /\ disabled = [c \in Controls |-> FALSE]
  /\ cls = {}
  /\ t10 = {}
  /\ t5 = {}
  /\ reqs = {}
  /\ lastResponseMeta = "null"
  /\ view = [i \in Items |-> "shown"]
  /\ anim = {}
  /\ dim = [i \in Items |-> FALSE]
  /\ actionsPresent = [i \in Items |-> TRUE]
  /\ paginationState = [loaded |-> 3, total |-> 3, nextOffset |-> << >>]
  /\ resolved = [n \in NoteItems |-> 0]
  /\ succeeded = {}
  /\ last = NoEvent
  \* a commit of three notes, all loaded, nothing selected
  /\ selection = {}
  /\ checked = {}
  /\ bulkReqs = {}
  /\ bulkBtnDisabled = TRUE
  /\ selBtnDisabled = FALSE
  /\ bulkTimers = {}
  /\ srvDone = {}
  /\ loadedNotes = {"NA", "NB"}
  /\ loadMore = << >>
  /\ img = NoImage
  /\ handlers = 1
  /\ restore = NoRestore
  /\ panel = NoPanel
  /\ toggle = NoToggle


\* ------------------------------------------------- the action dispatcher
\* data-note-id of the note controls (|| the id of the enclosing context)
NoteIdOf(c) ==
  CASE ItemOf(c) = "NA" -> <<"7">>
    [] ItemOf(c) = "NB" -> <<"8">>
    [] OTHER -> <<" ">>

\* the item id the dispatcher hands to the handler: data('tag-id'),
\* data('move-id'), data('field-id') or the note id; nothing when the
\* attribute is missing
ItemIdOf(c) ==
  IF IsNoteAction(c) THEN NoteIdOf(c)
  ELSE IF page.blank THEN << >>
  ELSE <<"5">>

RECURSIVE TrimRight(_)
TrimRight(s) ==
  IF s # << >> /\ s[Len(s)] = " " THEN TrimRight(SubSeq(s, 1, Len(s) - 1))
  ELSE s

\* normalizeNoteId: String(noteId).trim()
normalizeNoteId(noteId) == TrimRight(StripLeading(noteId, {" "}))

\* a click reaches a control that is in the document and takes pointer events
Attached(c) ==
  /\ ItemOf(c) \in page.items
  /\ view[CardOf(ItemOf(c))] # "removed"
  /\ view[ItemOf(c)] # "removed"
  /\ actionsPresent[ItemOf(c)]
  /\ c \notin cls

\* variant without the guard
DispatchGuardOff(c) == FALSE

\* if ($button.prop('disabled')) return;
DispatchGuard(c) == disabled[c]

\* click.protection runs after the dispatcher in the same click; it returns
\* early on a control that is disabled by then, and arms both timers otherwise
ProtectionArms(c, disabledNow) == ~(c \in cls \/ disabledNow)

\* $button.closest('.suggestion-box') of a field control finds the box only
\* while the box carries the class; the other controls find their container
BoxFound(c, cont) == ItemOf(c) = "F" => cont.isBox

NextIndex(c) ==
  CHOOSE k \in 1..MaxInFlight : \A r \in reqs : r.ctl = c => r.k # k

InFlight(c) == {r \in reqs : r.ctl = c}

\* the repeated activation of a disabled control: nothing happens
ClickIgnored(c) ==
  /\ Attached(c)
  /\ DispatchGuard(c)
  /\ ~ProtectionArms(c, disabled[c])
  /\ last' = "ignored"
  /\ UNCHANGED <<page, disabled, cls, t10, t5, reqs, lastResponseMeta, view,
                 anim, dim, actionsPresent, content, paginationState,
                 resolved, succeeded>>
  /\ UNCHANGED commitVars

\* handleNoteAction with a blank id: restoreInteractiveButton and return; the
\* protection handler then finds the control enabled and arms its timers
ClickInvalid(c) ==
  /\ Attached(c)
  /\ ~DispatchGuard(c)
  /\ IsNoteAction(c)
  /\ normalizeNoteId(NoteIdOf(c)) = << >>
  /\ disabled' = [disabled EXCEPT ![c] = FALSE]
  /\ cls' = cls \ {c}
  /\ IF ProtectionArms(c, FALSE)
       THEN t10' = t10 \cup {c} /\ t5' = t5 \cup {c}
       ELSE UNCHANGED <<t10, t5>>
  /\ last' = "invalid"
  /\ UNCHANGED <<page, reqs, lastResponseMeta, view, anim, dim,
                 actionsPresent, content, paginationState, resolved,
                 succeeded>>
  /\ UNCHANGED commitVars

\* the control is disabled, the item dimmed and the request sent (apiCall
\* resets lastResponseMeta before the fetch)
ClickIssues(c) ==
  /\ Attached(c)
  /\ ~DispatchGuard(c)
  /\ IsNoteAction(c) => normalizeNoteId(NoteIdOf(c)) # << >>
  /\ Cardinality(reqs) < MaxInFlight
  /\ disabled' = [disabled EXCEPT ![c] = TRUE]
  /\ dim' = [dim EXCEPT ![ItemOf(c)] = BoxFound(c, content)]
  /\ lastResponseMeta' = "null"
  /\ reqs' = reqs \cup {[ctl |-> c, k |-> NextIndex(c), phase |-> "sent",
                         own |-> "none", snap |-> content]}
  /\ IF ProtectionArms(c, TRUE)
       THEN t10' = t10 \cup {c} /\ t5' = t5 \cup {c}
       ELSE UNCHANGED <<t10, t5>>
  /\ last' = "issued"
  /\ UNCHANGED <<page, cls, view, anim, actionsPresent, content,
                 paginationState, resolved, succeeded>>
  /\ UNCHANGED commitVars


\* ------------------------------------------------------ response handlers
\* window.restoreButton / restoreInteractiveButton
RestoredClasses(c) == cls \ {c}

\* jQuery fadeOut(.., remove) on an item element
FadeOut(i) == [view EXCEPT ![i] = IF @ = "shown" THEN "fading" ELSE @]

\* cleanTagText of the proposal chip
CleanTagText ==
  StripLeading(ChipText(page.tagClass, page.tagName),
               IF page.tagClass = "add" THEN {"+", " "} ELSE {"-", " "})

FirstWithText(chips, text) ==
  {k \in 1..Len(chips) :
     /\ chips[k].text = text
     /\ \A j \in 1..(k - 1) : chips[j].text # text}

\* the published tag list after an accepted tag proposal
AcceptedTags(chips) ==
  IF page.tagClass = "add" THEN Append(chips, Chip(CleanTagText))
  ELSE [k \in 1..Len(chips) |->
          IF k \in FirstWithText(chips, CleanTagText)
            THEN [chips[k] EXCEPT !.st = "fading"] ELSE chips[k]]

\* handleFieldAction, accept branch (lines 415-446); without a box there is
\* no diff pane to read the candidate from, and only the buttons are removed
AcceptFieldSucceeded(r) ==
  /\ IF BoxFound(r.ctl, r.snap)
       THEN /\ content' =
                 [content EXCEPT
                    !.diff = Plain(unescapeHtml(getData(page.new))),
                    !.original = getData(page.new),
                    !.pubHtml = IF view["F"] # "removed"
                                  THEN Plain(unescapeHtml(getData(page.new)))
                                  ELSE @,
                    !.pubData = IF view["F"] # "removed"
                                  THEN getData(page.new) ELSE @,
                    !.isBox = FALSE]
            /\ dim' = [dim EXCEPT !["F"] = FALSE]
       ELSE UNCHANGED <<content, dim>>
  /\ actionsPresent' = [actionsPresent EXCEPT !["F"] = FALSE]
  /\ UNCHANGED <<view, anim>>

\* handleFieldAction, deny branch (lines 448-451)
DenyFieldSucceeded(r) ==
  /\ view' = IF BoxFound(r.ctl, r.snap) THEN FadeOut("F") ELSE view
  /\ UNCHANGED <<content, actionsPresent, dim, anim>>

\* handleTagAction after the await (lines 304-375); the published container is
\* looked up from the button, so it is found only while the proposal element
\* is still inside its note card
AcceptTagSucceeded ==
  /\ content' =
       [content EXCEPT
          !.published = IF view["T"] # "removed" THEN AcceptedTags(@) ELSE @]
  /\ view' = FadeOut("T")
  /\ UNCHANGED <<actionsPresent, dim, anim>>

DenyTagSucceeded ==
  /\ view' = FadeOut("T")
  /\ UNCHANGED <<content, actionsPresent, dim, anim>>

\* handleMoveAction (lines 388-393)
AcceptMoveSucceeded ==
  /\ content' = [content EXCEPT !.moved = TRUE]
  /\ actionsPresent' = [actionsPresent EXCEPT !["M"] = FALSE]
  /\ dim' = [dim EXCEPT !["M"] = FALSE]
  /\ UNCHANGED <<view, anim>>

DenyMoveSucceeded ==
  /\ view' = FadeOut("M")
  /\ UNCHANGED <<content, actionsPresent, dim, anim>>

\* removeNoteCard: fadeOut(220, remove + trigger).  A fadeOut called while one
\* is running is queued, and the queue is dropped when the running one removes
\* the element; on a card already removed the animation is empty but its
\* callback still runs
removeNoteCard(n) ==
  /\ IF n \in anim THEN UNCHANGED <<anim, view>>
     ELSE anim' = anim \cup {n} /\ view' = FadeOut(n)
  /\ UNCHANGED <<content, actionsPresent, dim>>

\* if (meta && meta.redirected) { ... finalPath === '/' ... throw }
RedirectedToRoot(meta) == meta = "root"

SuccessEffect(r) ==
  CASE r.ctl = "accept-field" -> AcceptFieldSucceeded(r)
    [] r.ctl = "deny-field" -> DenyFieldSucceeded(r)
    [] r.ctl = "accept-tag" -> AcceptTagSucceeded
    [] r.ctl = "deny-tag" -> DenyTagSucceeded
    [] r.ctl = "accept-move" -> AcceptMoveSucceeded
    [] r.ctl = "deny-move" -> DenyMoveSucceeded
    [] OTHER -> removeNoteCard(ItemOf(r.ctl))

\* the code after the await when the request succeeded
Succeeded(r) ==
  /\ SuccessEffect(r)
  /\ succeeded' = succeeded \cup {ItemOf(r.ctl)}
  /\ UNCHANGED <<disabled, cls>>

\* the catch block: the item is shown undimmed and the control enabled again
\* (note actions: setNoteProcessingState(false) and restoreInteractiveButton)
FailureEffect(r) ==
  /\ dim' = [dim EXCEPT ![ItemOf(r.ctl)] = FALSE]
  /\ disabled' = [disabled EXCEPT ![r.ctl] = FALSE]
  /\ cls' = IF IsNoteAction(r.ctl) THEN RestoredClasses(r.ctl) ELSE cls
  /\ UNCHANGED <<view, anim, content, actionsPresent, succeeded>>

\* the handler resumes after its await with the request fulfilled; a note
\* action then reads the shared lastResponseMeta, whose value is 'meta'
Resume(r, meta) ==
  IF IsNoteAction(r.ctl) /\ RedirectedToRoot(meta)
    THEN /\ FailureEffect(r)
         /\ last' = "anomaly"
    ELSE /\ Succeeded(r)
         /\ last' = "success"

Rejected(r) ==
  /\ FailureEffect(r)
  /\ last' = "failure"

\* redirects occur on the note endpoints (empty body or redirect)
MetasOf(c) == IF IsNoteAction(c) THEN ResponseMetas ELSE {"plain"}

\* fetch rejects (network failure): lastResponseMeta keeps its value and the
\* catch block of the handler runs
ArriveRejected(r) ==
  /\ r \in reqs /\ r.phase = "sent"
  /\ reqs' = reqs \ {r}
  /\ Rejected(r)
  /\ UNCHANGED <<page, t10, t5, lastResponseMeta, paginationState, resolved>>
  /\ UNCHANGED commitVars

\* a 2xx response without body (204 or Content-Length 0): apiCall records the
\* meta and returns at once, the handler resumes in the same task
ArriveEmpty(r, m) ==
  /\ r \in reqs /\ r.phase = "sent" /\ m \in MetasOf(r.ctl)
  /\ lastResponseMeta' = m
  /\ reqs' = reqs \ {r}
  /\ Resume([r EXCEPT !.own = m], m)
  /\ UNCHANGED <<page, t10, t5, paginationState, resolved>>
  /\ UNCHANGED commitVars

\* any other response: apiCall records the meta and awaits the body, the
\* error body of a non-2xx response (ok = FALSE) or response.json() /
\* response.text() of a 2xx one
ArriveBody(r, m, ok) ==
  /\ r \in reqs /\ r.phase = "sent" /\ m \in MetasOf(r.ctl)
  /\ ~ok => m = "plain"
  /\ lastResponseMeta' = m
  /\ reqs' = (reqs \ {r}) \cup
             {[r EXCEPT !.phase = IF ok THEN "body" ELSE "error", !.own = m]}
  /\ last' = NoEvent
  /\ UNCHANGED <<page, disabled, cls, t10, t5, view, anim, dim,
                 actionsPresent, content, paginationState, resolved,
                 succeeded>>
  /\ UNCHANGED commitVars

\* the body has been read: apiCall returns or throws and the handler resumes,
\* reading lastResponseMeta as it is now
Complete(r) ==
  /\ r \in reqs /\ r.phase \in {"body", "error"}
  /\ reqs' = reqs \ {r}
  /\ IF r.phase = "body" THEN Resume(r, lastResponseMeta) ELSE Rejected(r)
  /\ UNCHANGED <<page, t10, t5, lastResponseMeta, paginationState, resolved>>
  /\ UNCHANGED commitVars

\* ------------------------------------------------ animations and timers
\* fadeOut(300, function() { $(this).remove(); }) of an item element
FadeDone(i) ==
  /\ i \in {"F", "T", "M"}
  /\ view[i] = "fading"
  /\ view' = [view EXCEPT ![i] = "removed"]
  /\ last' = NoEvent
  /\ UNCHANGED <<page, disabled, cls, t10, t5, reqs, lastResponseMeta, anim,
                 dim, actionsPresent, content, paginationState, resolved,
                 succeeded>>
  /\ UNCHANGED commitVars

\* the fade of an accepted 'removed' tag in the published list
ChipFadeDone ==
  /\ \E k \in 1..Len(content.published) : content.published[k].st = "fading"
  /\ content' = [content EXCEPT
                   !.published = SelectSeq(@, LAMBDA ch : ch.st # "fading")]
  /\ last' = NoEvent
  /\ UNCHANGED <<page, disabled, cls, t10, t5, reqs, lastResponseMeta, view,
                 anim, dim, actionsPresent, paginationState, resolved,
                 succeeded>>
  /\ UNCHANGED commitVars

\* note:resolved.commitPagination
NoteResolved(ps) ==
  [ps EXCEPT !.loaded = Max(0, @ - 1), !.total = Max(0, @ - 1)]

\* the card of the note is in #notes-container
InDOM(n, v) == n \in loadedNotes /\ v[n] # "removed"

\* updateSelectionCount: the bulk buttons are enabled iff something is selected
updateSelectionCount(sel) == sel = {}

\* the 'note:resolved' listener of the selection: ids without a card in the
\* container are dropped; the count is refreshed only when something changed
CleanedSelection(v) == {n \in selection : InDOM(n, v)}

\* the callback of removeNoteCard: the card is removed, then 'note:resolved'
\* is triggered and the pagination counters follow
CardFadeDone(n) ==
  /\ n \in anim
  /\ anim' = anim \ {n}
  /\ view' = [view EXCEPT ![n] = "removed"]
  /\ resolved' = [resolved EXCEPT ![n] = @ + 1]
  /\ paginationState' = NoteResolved(paginationState)
  /\ selection' = CleanedSelection(view')
  /\ bulkBtnDisabled' = IF selection' # selection
                          THEN updateSelectionCount(selection')
                          ELSE bulkBtnDisabled
  /\ checked' = checked \ {n}
  /\ last' = "resolved"
  /\ UNCHANGED <<page, disabled, cls, t10, t5, reqs, lastResponseMeta, dim,
                 actionsPresent, content, succeeded, bulkReqs, selBtnDisabled,
                 bulkTimers, srvDone, loadedNotes, loadMore, img, handlers, restore, panel, toggle>>

\* the 10 ms timer of click.protection
Timer10(c) ==
  /\ c \in t10
  /\ t10' = t10 \ {c}
  /\ IF c \in cls THEN UNCHANGED <<cls, disabled>>
     ELSE cls' = cls \cup {c} /\ disabled' = [disabled EXCEPT ![c] = TRUE]
  /\ last' = NoEvent
  /\ UNCHANGED <<page, t5, reqs, lastResponseMeta, view, anim, dim,
                 actionsPresent, content, paginationState, resolved,
                 succeeded>>
  /\ UNCHANGED commitVars

\* the 5 s failsafe of click.protection, due after the 10 ms timer
Failsafe(c) ==
  /\ c \in t5 /\ c \notin t10
  /\ t5' = t5 \ {c}
  /\ IF c \in cls
       THEN cls' = RestoredClasses(c)
            /\ disabled' = [disabled EXCEPT ![c] = FALSE]
       ELSE UNCHANGED <<cls, disabled>>
  /\ last' = NoEvent
  /\ UNCHANGED <<page, t10, reqs, lastResponseMeta, view, anim, dim,
                 actionsPresent, content, paginationState, resolved,
                 succeeded>>
  /\ UNCHANGED commitVars

Next ==
  \/ \E c \in Controls : ClickIgnored(c)
  \/ \E c \in Controls : ClickInvalid(c)
  \/ \E c \in Controls : ClickIssues(c)
  \/ \E r \in reqs : ArriveRejected(r)
  \/ \E r \in reqs, m \in ResponseMetas : ArriveEmpty(r, m)
  \/ \E r \in reqs, m \in ResponseMetas, ok \in BOOLEAN : ArriveBody(r, m, ok)
  \/ \E r \in reqs : Complete(r)
  \/ \E i \in Items : FadeDone(i)
  \/ ChipFadeDone
  \/ \E n \in NoteItems : CardFadeDone(n)
  \/ \E c \in Controls : Timer10(c)
  \/ \E c \in Controls : Failsafe(c)

Spec == Init /\ [][Next]_vars

\* the pages whose tag, move or note control is rendered without its item id
BlankInit ==
  /\ \E its \in {{"T", "NA"}, {"M", "NA"}, {"NB", "Z"}}, tc \in TagClasses :
       /\ page = [items |-> its, new |-> <<"w">>, tagClass |-> tc,
                  tagName |-> <<"x">>, grouped |-> FALSE, blank |-> TRUE]
       /\ content =
            [diff |-> ServerDiff(<<"w">>, <<"w">>),
             original |-> getData(<<"w">>),
             pubHtml |-> Plain(unescapeHtml(getData(<<"w">>))),
             pubData |-> getData(<<"w">>),
             isBox |-> groupSuggestionsByCommit(FALSE),
             published |-> IF tc = "remove" THEN <<Chip(<<"y">>), Chip(<<"x">>)>>
                           ELSE <<Chip(<<"y">>)>>,
             moved |-> FALSE]
  /\ disabled = [c \in Controls |-> FALSE]
  /\ cls = {}
  /\ t10 = {}
  /\ t5 = {}
  /\ reqs = {}
  /\ lastResponseMeta = "null"
  /\ view = [i \in Items |-> "shown"]
  /\ anim = {}
  /\ dim = [i \in Items |-> FALSE]
  /\ actionsPresent = [i \in Items |-> TRUE]
  /\ paginationState = [loaded |-> 2, total |-> 3, nextOffset |-> <<2>>]
  /\ resolved = [n \in NoteItems |-> 0]
  /\ succeeded = {}
  /\ last = NoEvent
  /\ selection = {}
  /\ loadedNotes = {"NA", "NB"}
  /\ checked = {}
  /\ bulkReqs = {}
  /\ bulkBtnDisabled = TRUE
  /\ selBtnDisabled = FALSE
  /\ bulkTimers = {}
  /\ srvDone = {}
  /\ loadMore = << >>
  /\ img = NoImage
  /\ handlers = 1
  /\ restore = NoRestore
  /\ panel = NoPanel
  /\ toggle = NoToggle

BlankSpec == BlankInit /\ [][Next]_vars

\* timers fire and animations end; nothing makes a response arrive
FairSpec ==
  /\ Spec
  /\ \A c \in Controls : WF_vars(Timer10(c)) /\ WF_vars(Failsafe(c))
  /\ \A i \in Items : WF_vars(FadeDone(i))
  /\ \A n \in NoteItems : WF_vars(CardFadeDone(n))
  /\ WF_vars(ChipFadeDone)

\* ------------------------------------------- selection and bulk actions
\* cap on the bulk submissions in flight at the same time
MaxBulkInFlight == 1

\* note ids are canonical decimal strings, so String(data('note-id')),
\* parseInt(id, 10) and String(failure.id) all name the same note, and a note
\* is named here by its item
\* variant that takes every note of the commit
CardsOfCommit(v) == NoteItems

\* $notesContainer.find('.note-select-checkbox') / find('.note-card')
CardsInContainer(v) == {n \in NoteItems : InDOM(n, v)}

\* applySelectionToAllCheckboxes: every checkbox in the container shows the
\* membership of its note
applySelectionToAllCheckboxes(sel, v) == sel \cap CardsInContainer(v)

\* change event of a note checkbox: toggleNoteSelection with the new state
ToggleCheckbox(n) ==
  /\ InDOM(n, view)
  /\ checked' = IF n \in checked THEN checked \ {n} ELSE checked \cup {n}
  /\ selection' = IF n \in checked' THEN selection \cup {n}
                  ELSE selection \ {n}
  /\ bulkBtnDisabled' = updateSelectionCount(selection')
  /\ last' = "toggled"
  /\ UNCHANGED <<page, disabled, cls, t10, t5, reqs, lastResponseMeta, view,
                 anim, dim, actionsPresent, content, paginationState,
                 resolved, succeeded, bulkReqs, selBtnDisabled, bulkTimers,
                 srvDone, loadedNotes, loadMore, img, handlers, restore, panel, toggle>>

\* click on 'select all visible'
SelectAll ==
  /\ ~selBtnDisabled
  /\ selection' = selection \cup CardsInContainer(view)
  /\ checked' = checked \cup CardsInContainer(view)
  /\ bulkBtnDisabled' = updateSelectionCount(selection')
  /\ last' = "select-all"
  /\ UNCHANGED <<page, disabled, cls, t10, t5, reqs, lastResponseMeta, view,
                 anim, dim, actionsPresent, content, paginationState,
                 resolved, succeeded, bulkReqs, selBtnDisabled, bulkTimers,
                 srvDone, loadedNotes, loadMore, img, handlers, restore, panel, toggle>>

\* click on 'deselect all'
DeselectAll ==
  /\ ~selBtnDisabled
  /\ selection' = selection \ CardsInContainer(view)
  /\ checked' = checked \ CardsInContainer(view)
  /\ bulkBtnDisabled' = updateSelectionCount(selection')
  /\ last' = "deselect-all"
  /\ UNCHANGED <<page, disabled, cls, t10, t5, reqs, lastResponseMeta, view,
                 anim, dim, actionsPresent, content, paginationState,
                 resolved, succeeded, bulkReqs, selBtnDisabled, bulkTimers,
                 srvDone, loadedNotes, loadMore, img, handlers, restore, panel, toggle>>

\* click on bulk approve / bulk deny (confirmed): performBulkAction up to its
\* fetch; the request carries the selection read at this point
BulkClick ==
  /\ ~bulkBtnDisabled
  /\ selection # {}
  /\ Cardinality(bulkReqs) < MaxBulkInFlight
  /\ bulkBtnDisabled' = TRUE
  /\ selBtnDisabled' = TRUE
  /\ bulkReqs' = bulkReqs \cup {[sel |-> selection]}
  /\ last' = "bulk"
  /\ UNCHANGED <<page, disabled, cls, t10, t5, reqs, lastResponseMeta, view,
                 anim, dim, actionsPresent, content, paginationState,
                 resolved, succeeded, selection, checked, bulkTimers,
                 srvDone, loadedNotes, loadMore, img, handlers, restore, panel, toggle>>

\* variant that keeps what was submitted
BulkKeepsSelection(sel, failedIds) == sel

\* selection.filter(id => failedIds.includes(id))
BulkNewSelection(sel, failedIds) == {id \in sel : id \in failedIds}

\* variant that refreshes the count and leaves the checkboxes as they are
BulkFinallyCountOnly ==
  /\ selBtnDisabled' = FALSE
  /\ checked' = checked
  /\ bulkBtnDisabled' = updateSelectionCount(selection')

\* the finally block: select-all / deselect-all enabled, every checkbox and
\* the count refreshed from the stored selection
BulkFinally ==
  /\ selBtnDisabled' = FALSE
  /\ checked' = applySelectionToAllCheckboxes(selection', view)
  /\ bulkBtnDisabled' = updateSelectionCount(selection')

\* the result of the server has been read: the succeeded cards are marked and
\* their removal is scheduled, the failed ids are what is selected now
BulkArrive(b, ok) ==
  \* the server reports as succeeded only notes it has not resolved before
  /\ b \in bulkReqs /\ ok \subseteq b.sel /\ ok \cap srvDone = {}
  /\ bulkReqs' = bulkReqs \ {b}
  /\ bulkTimers' = bulkTimers \cup (ok \cap CardsInContainer(view))
  /\ srvDone' = srvDone \cup ok
  /\ selection' = BulkNewSelection(b.sel, b.sel \ ok)
  /\ BulkFinally
  /\ last' = "bulk-done"
  /\ UNCHANGED <<page, disabled, cls, t10, t5, reqs, lastResponseMeta, view,
                 anim, dim, actionsPresent, content, paginationState,
                 resolved, succeeded, loadedNotes, loadMore, img, handlers, restore, panel, toggle>>

\* the request is rejected or answered non-2xx: alert, then the finally block
BulkFail(b) ==
  /\ b \in bulkReqs
  /\ bulkReqs' = bulkReqs \ {b}
  /\ selection' = selection
  /\ BulkFinally
  /\ last' = "bulk-failed"
  /\ UNCHANGED <<page, disabled, cls, t10, t5, reqs, lastResponseMeta, view,
                 anim, dim, actionsPresent, content, paginationState,
                 resolved, succeeded, bulkTimers, srvDone, loadedNotes,
                 loadMore, img, handlers, restore, panel, toggle>>

\* 500 ms after the result: $noteCard.fadeOut(300, remove + 'note:resolved')
BulkTimer(n) ==
  /\ n \in bulkTimers
  /\ bulkTimers' = bulkTimers \ {n}
  /\ removeNoteCard(n)
  /\ last' = NoEvent
  /\ UNCHANGED <<page, disabled, cls, t10, t5, reqs, lastResponseMeta,
                 paginationState, resolved, succeeded, selection, checked,
                 bulkReqs, bulkBtnDisabled, selBtnDisabled, srvDone,
                 loadedNotes, loadMore, img, handlers, restore, panel, toggle>>

\* a commit page of three notes, two of them loaded; note B has its publish
\* and delete controls; the stored selection is the one of an earlier visit
BulkInit ==
  /\ page = [items |-> {"NB"}, new |-> <<"w">>, tagClass |-> "add",
             tagName |-> <<"x">>, grouped |-> FALSE, blank |-> FALSE]
  /\ content =
       [diff |-> ServerDiff(<<"w">>, <<"w">>), original |-> getData(<<"w">>),
        pubHtml |-> Plain(unescapeHtml(getData(<<"w">>))),
        pubData |-> getData(<<"w">>), isBox |-> TRUE,
        published |-> <<Chip(<<"y">>)>>, moved |-> FALSE]
  /\ disabled = [c \in Controls |-> FALSE]
  /\ cls = {}
  /\ t10 = {}
  /\ t5 = {}
  /\ reqs = {}
  /\ lastResponseMeta = "null"
  /\ view = [i \in Items |-> "shown"]
  /\ anim = {}
  /\ dim = [i \in Items |-> FALSE]
  /\ actionsPresent = [i \in Items |-> TRUE]
  /\ paginationState = [loaded |-> 2, total |-> 3, nextOffset |-> <<2>>]
  /\ resolved = [n \in NoteItems |-> 0]
  /\ succeeded = {}
  /\ last = NoEvent
  /\ selection \in SUBSET NoteItems
  /\ loadedNotes = {"NA", "NB"}
  /\ checked = applySelectionToAllCheckboxes(selection, view)
  /\ bulkReqs = {}
  /\ bulkBtnDisabled = updateSelectionCount(selection)
  /\ selBtnDisabled = FALSE
  /\ bulkTimers = {}
  /\ srvDone = {}
  /\ loadMore = << >>
  /\ img = NoImage
  /\ handlers = 1
  /\ restore = NoRestore
  /\ panel = NoPanel
  /\ toggle = NoToggle

BulkNext ==
  \/ \E c \in Controls : ClickIgnored(c)
  \/ \E c \in Controls : ClickIssues(c)
  \/ \E r \in reqs : ArriveRejected(r)
  \/ \E r \in reqs, m \in ResponseMetas : ArriveEmpty(r, m)
  \/ \E n \in NoteItems : CardFadeDone(n)
  \/ \E n \in NoteItems : ToggleCheckbox(n)
  \/ SelectAll
  \/ DeselectAll
  \/ BulkClick
  \/ \E b \in bulkReqs, ok \in SUBSET NoteItems : BulkArrive(b, ok)
  \/ \E b \in bulkReqs : BulkFail(b)
  \/ \E n \in NoteItems : BulkTimer(n)

BulkSpec == BulkInit /\ [][BulkNext]_vars

\* ------------------------------------------------- pagination and images
\* limit=50 of the page request
Limit == 50

\* cap on the image requests in flight at the same time
MaxImageInFlight == 1

\* the notes of the commit the server has not resolved yet
UnresolvedOnServer == NoteItems \ (succeeded \cup srvDone)

\* GET /commit/{id}?offset&limit&format=json: one page of the unresolved notes
\* of the commit, their number, the offset of the next page (none: << >>)
\* and the number of unresolved notes
Listing(offset) ==
  LET all == SelectSeq(<<"NA", "NB", "ND">>,
                       LAMBDA n : n \in UnresolvedOnServer)
      ks == {k \in 1..Len(all) : k > offset /\ k <= offset + Limit}
  IN [html |-> {all[k] : k \in ks},
      loaded |-> Cardinality(ks),
      next_offset |-> IF offset + Cardinality(ks) < Len(all)
                        THEN <<offset + Cardinality(ks)>> ELSE << >>,
      total |-> Len(all)]

\* parseOptionalNumber: undefined, null and '' give null (<< >>), a finite
\* number gives that number
parseOptionalNumber(value) ==
  IF value = << >> THEN << >> ELSE <<value[1]>>

\* click on 'load more': nothing while a page is loading or without a next
\* offset; the request carries the offset read at this point
LoadMoreClick ==
  /\ restore.phase # "ready"
  /\ loadMore = << >>
  /\ paginationState.nextOffset # << >>
  /\ loadMore' = <<paginationState.nextOffset[1]>>
  /\ last' = "load-more"
  /\ UNCHANGED <<page, disabled, cls, t10, t5, reqs, lastResponseMeta, view,
                 anim, dim, actionsPresent, content, paginationState,
                 resolved, succeeded, selection, checked, bulkReqs,
                 bulkBtnDisabled, selBtnDisabled, bulkTimers, srvDone,
                 loadedNotes, img, handlers, restore, panel, toggle>>

\* initializeNoteCard on a baseline pane that is already rendered: the pane is
\* set again from its data('content'), so its image is a new element prepared
\* as a placeholder; the request of the replaced element stays in flight
\* the src of the image element: the file name it is rendered with, the
\* "click to show" placeholder, the presigned URL or the error placeholder
Src(im) ==
  CASE im.st = "raw" -> "file"
    [] im.st \in {"lazy", "loading"} -> "placeholder"
    [] im.st = "loaded" -> "http"
    [] OTHER -> "error"

\* $contentDiv.html(htmlContent): the pane gets a new image element, whose
\* src is the file name; requests sent for the old one stay in flight
renderContent(im) ==
  [im EXCEPT !.st = "raw", !.pending = 0, !.orphans = @ + im.pending,
             !.gen = 1 - @]

\* variant that prepares every image it is given
prepareEveryImage(im) == [im EXCEPT !.st = "lazy"]

\* prepareImagesForLazyLoad: an image that has the class lazy-load-image or
\* shows a placeholder is skipped, a local file name becomes a placeholder
prepareImagesForLazyLoad(im) ==
  IF im.st \in {"lazy", "loading"} \/ Src(im) \in {"placeholder", "error"}
    THEN im
  ELSE IF Src(im) = "file" THEN [im EXCEPT !.st = "lazy"]
  ELSE im

\* initializeNoteCard over the pane of the image: a baseline pane is rendered
\* again and prepared, a diff pane is only prepared
initializeImage(im) ==
  IF im.pane = "baseline" THEN prepareImagesForLazyLoad(renderContent(im))
  ELSE prepareImagesForLazyLoad(im)

\* initializeNoteCard over the panes of a rendered card: the baseline pane
\* shows its data('content'); processDiffField leaves a processed diff pane
initializeNoteCard(cont) ==
  [cont EXCEPT !.pubHtml = Plain(unescapeHtml(cont.pubData))]

\* setupEventHandlers: off('.sharedUI'), then the dispatcher is bound again
setupEventHandlers(h) == 1

\* SharedUI.initializePage() over the page as it is
initializePage ==
  /\ content' = initializeNoteCard(content)
  /\ img' = IF view["NA"] # "removed" THEN initializeImage(img) ELSE img
  /\ handlers' = setupEventHandlers(handlers)

\* the page has arrived: its cards are appended, the page is initialised again,
\* the counters follow the payload; the mutation observer then shows the
\* selection on the new checkboxes and refreshes the count
LoadMoreArrive ==
  /\ loadMore # << >>
  /\ LET payload == Listing(loadMore[1])
     IN /\ loadedNotes' = loadedNotes \cup payload.html
        /\ IF payload.html # {}
             THEN /\ initializePage
                  /\ checked' = checked \cup (payload.html \cap selection)
                  /\ bulkBtnDisabled' = updateSelectionCount(selection)
             ELSE UNCHANGED <<content, img, handlers, checked,
                              bulkBtnDisabled>>
        /\ paginationState' =
             [loaded |-> paginationState.loaded + payload.loaded,
              total |-> payload.total,
              nextOffset |-> parseOptionalNumber(payload.next_offset)]
  /\ loadMore' = << >>
  /\ last' = "loaded-more"
  /\ UNCHANGED <<page, disabled, cls, t10, t5, reqs, lastResponseMeta, view,
                 anim, dim, actionsPresent, resolved, succeeded, selection,
                 bulkReqs, selBtnDisabled, bulkTimers, srvDone, restore,
                 panel, toggle>>

\* the page request is rejected or answered non-2xx: a status text, then the
\* finally block
LoadMoreFail ==
  /\ loadMore # << >>
  /\ loadMore' = << >>
  /\ last' = "load-failed"
  /\ UNCHANGED <<page, disabled, cls, t10, t5, reqs, lastResponseMeta, view,
                 anim, dim, actionsPresent, content, paginationState,
                 resolved, succeeded, selection, checked, bulkReqs,
                 bulkBtnDisabled, selBtnDisabled, bulkTimers, srvDone,
                 loadedNotes, img, handlers, restore, panel, toggle>>

\* variant that asks again while a request is in flight
CanLoadWhileLoading(im) == im.st \in {"lazy", "loading"}

\* loadPresignedImage goes on only for an element with the class
\* lazy-load-image and without the class loading
CanLoad(im) == im.st \in {"lazy", "loading"} /\ im.st # "loading"

\* click on the image, whatever it shows: the delegate runs loadPresignedImage
\* for img.lazy-load-image, up to its await
ImageClick ==
  /\ view["NA"] # "removed"
  /\ img.orphans < MaxImageInFlight
  /\ IF CanLoad(img)
       THEN /\ img' = [img EXCEPT !.st = "loading", !.pending = @ + 1]
            /\ lastResponseMeta' = "null"
            /\ last' = "image"
       ELSE /\ last' = "image-ignored"
            /\ UNCHANGED <<img, lastResponseMeta>>
  /\ UNCHANGED <<page, disabled, cls, t10, t5, reqs, view,
                 anim, dim, actionsPresent, content, paginationState,
                 resolved, succeeded, selection, checked, bulkReqs,
                 bulkBtnDisabled, selBtnDisabled, bulkTimers, srvDone,
                 loadedNotes, loadMore, handlers, restore, panel, toggle>>

\* the presigned URL has arrived (ok) or the request has been rejected; the
\* element is the one the request was sent for
ImageArrive(ok) ==
  /\ img.pending > 0
  /\ img' = [img EXCEPT !.st = IF ok THEN "loaded" ELSE "error",
                        !.pending = @ - 1]
  /\ lastResponseMeta' = IF ok THEN "plain" ELSE lastResponseMeta
  /\ last' = IF ok THEN "image-loaded" ELSE "image-failed"
  /\ UNCHANGED <<page, disabled, cls, t10, t5, reqs, view, anim, dim,
                 actionsPresent, content, paginationState, resolved,
                 succeeded, selection, checked, bulkReqs, bulkBtnDisabled,
                 selBtnDisabled, bulkTimers, srvDone, loadedNotes, loadMore,
                 handlers, restore, panel, toggle>>

\* the answer to the request of a replaced element: its src and classes are
\* set on an element that is no longer in the document
OrphanArrive(ok) ==
  /\ img.orphans > 0
  /\ img' = [img EXCEPT !.orphans = @ - 1]
  /\ lastResponseMeta' = IF ok THEN "plain" ELSE lastResponseMeta
  /\ last' = NoEvent
  /\ UNCHANGED <<page, disabled, cls, t10, t5, reqs, view, anim, dim,
                 actionsPresent, content, paginationState, resolved,
                 succeeded, selection, checked, bulkReqs, bulkBtnDisabled,
                 selBtnDisabled, bulkTimers, srvDone, loadedNotes, loadMore,
                 handlers, restore, panel, toggle>>

\* a commit page of three notes, two of them loaded: a field suggestion on
\* note A, whose card shows an image in another field, and the publish and
\* delete controls of note B
PageInit ==
  /\ \E n \in Contents :
       /\ page = [items |-> {"F", "NB"}, new |-> n, tagClass |-> "add",
                  tagName |-> <<"x">>, grouped |-> FALSE, blank |-> FALSE]
       /\ content =
            [diff |-> ServerDiff(<<"w">>, n), original |-> getData(<<"w">>),
             pubHtml |-> Plain(unescapeHtml(getData(<<"w">>))),
             pubData |-> getData(<<"w">>), isBox |-> TRUE,
             published |-> <<Chip(<<"y">>)>>, moved |-> FALSE]
  /\ disabled = [c \in Controls |-> FALSE]
  /\ cls = {}
  /\ t10 = {}
  /\ t5 = {}
  /\ reqs = {}
  /\ lastResponseMeta = "null"
  /\ view = [i \in Items |-> "shown"]
  /\ anim = {}
  /\ dim = [i \in Items |-> FALSE]
  /\ actionsPresent = [i \in Items |-> TRUE]
  /\ paginationState = [loaded |-> 2, total |-> 3, nextOffset |-> <<2>>]
  /\ resolved = [n \in NoteItems |-> 0]
  /\ succeeded = {}
  /\ last = NoEvent
  /\ selection \in {{}, {"ND"}}
  /\ loadedNotes = {"NA", "NB"}
  /\ checked = applySelectionToAllCheckboxes(selection, view)
  /\ bulkReqs = {}
  /\ bulkBtnDisabled = updateSelectionCount(selection)
  /\ selBtnDisabled = FALSE
  /\ bulkTimers = {}
  /\ srvDone = {}
  /\ loadMore = << >>
  /\ img = NoImage
  /\ handlers = 1
  /\ restore = NoRestore
  /\ panel = NoPanel
  /\ toggle = NoToggle

PageNext ==
  \/ \E c \in Controls : ClickIgnored(c)
  \/ \E c \in Controls : ClickIssues(c)
  \/ \E r \in reqs : ArriveRejected(r)
  \/ \E r \in reqs, m \in ResponseMetas : ArriveEmpty(r, m)
  \/ \E i \in Items : FadeDone(i)
  \/ \E n \in NoteItems : CardFadeDone(n)
  \/ LoadMoreClick
  \/ LoadMoreArrive
  \/ LoadMoreFail
  \/ ImageClick
  \/ \E ok \in BOOLEAN : ImageArrive(ok)
  \/ \E ok \in BOOLEAN : OrphanArrive(ok)

PageSpec == PageInit /\ [][PageNext]_vars

\* the same page with the image in a baseline pane or in a diff pane
ImageInit ==
  /\ page = [items |-> {"NB"}, new |-> <<"w">>, tagClass |-> "add",
             tagName |-> <<"x">>, grouped |-> FALSE, blank |-> FALSE]
  /\ content =
       [diff |-> ServerDiff(<<"w">>, <<"w">>), original |-> getData(<<"w">>),
        pubHtml |-> Plain(unescapeHtml(getData(<<"w">>))),
        pubData |-> getData(<<"w">>), isBox |-> TRUE,
        published |-> <<Chip(<<"y">>)>>, moved |-> FALSE]
  /\ disabled = [c \in Controls |-> FALSE]
  /\ cls = {}
  /\ t10 = {}
  /\ t5 = {}
  /\ reqs = {}
  /\ lastResponseMeta = "null"
  /\ view = [i \in Items |-> "shown"]
  /\ anim = {}
  /\ dim = [i \in Items |-> FALSE]
  /\ actionsPresent = [i \in Items |-> TRUE]
  /\ paginationState = [loaded |-> 2, total |-> 3, nextOffset |-> <<2>>]
  /\ resolved = [n \in NoteItems |-> 0]
  /\ succeeded = {}
  /\ last = NoEvent
  /\ selection \in {{}, {"ND"}}
  /\ loadedNotes = {"NA", "NB"}
  /\ checked = applySelectionToAllCheckboxes(selection, view)
  /\ bulkReqs = {}
  /\ bulkBtnDisabled = updateSelectionCount(selection)
  /\ selBtnDisabled = FALSE
  /\ bulkTimers = {}
  /\ srvDone = {}
  /\ loadMore = << >>
  /\ \E pane \in {"baseline", "diff"} : img = [NoImage EXCEPT !.pane = pane]
  /\ handlers = 1
  /\ restore = NoRestore
  /\ panel = NoPanel
  /\ toggle = NoToggle

ImageNext ==
  \/ LoadMoreClick
  \/ LoadMoreArrive
  \/ LoadMoreFail
  \/ ImageClick
  \/ \E ok \in BOOLEAN : ImageArrive(ok)
  \/ \E ok \in BOOLEAN : OrphanArrive(ok)

ImageSpec == ImageInit /\ [][ImageNext]_vars

\* ------------------------------------------- restoration after a reload
\* STATE_EXPIRY_MS = 5 * 60 * 1000
STATE_EXPIRY_MS == 300000

\* what sessionStorage can hold under fieldEditPanel_restoreState when the
\* page loads: a text JSON.parse rejects, a JSON null, or an object whose
\* timestamp is missing, a string or a number (age: Date.now() - timestamp),
\* with its note id ("": missing; "#": no word character), remembered loaded
\* count and scroll position
Snapshots ==
  {[kind |-> k, ts |-> "missing", age |-> 0, noteId |-> "", loaded |-> 0,
    scrollPosition |-> 0] : k \in {"unparsable", "null"}}
  \cup
  {sn \in [kind : {"object"}, ts : {"missing", "string", "number"},
           age : {0, STATE_EXPIRY_MS, STATE_EXPIRY_MS + 1},
           noteId : {"", "#", "NA", "ND"}, loaded : {0, 2, 3, 53},
           scrollPosition : {0, 700}] :
     sn.ts # "number" => sn.age = 0}

\* variant without expiry
NeverExpired(sn) == FALSE

\* Date.now() - state.timestamp > STATE_EXPIRY_MS
Expired(sn) == sn.age > STATE_EXPIRY_MS

\* String(state.noteId).replace(/[^\w-]/g, '')
Sanitized(noteId) == IF noteId = "#" THEN "" ELSE noteId

\* Math.ceil(a / b) for a > 0
Ceil(a, b) == (a + b - 1) \div b

\* variant without the iteration limit
Unlimited(targetLoaded, currentLoaded) == 1000

\* Math.ceil((targetLoaded - currentLoaded) / limit) + 2
MaxIterations(targetLoaded, currentLoaded) ==
  Ceil(targetLoaded - currentLoaded, Limit) + 2

\* scrollToNoteAndHighlight on a card that is in the document
scrollToNoteAndHighlight(r) ==
  [r EXCEPT !.scroll = "note", !.highlight = TRUE, !.phase = "done"]

\* loadNotesUntilTarget up to its first fetch
loadNotesUntilTarget(r, targetLoaded, currentLoaded) ==
  IF paginationState.nextOffset = << >>
    THEN [r EXCEPT !.phase = "done"]
    ELSE [r EXCEPT !.phase = "fetching", !.i = 0,
                   !.maxIterations = MaxIterations(targetLoaded, currentLoaded),
                   !.loaded = currentLoaded,
                   !.nextOffset = paginationState.nextOffset,
                   !.fetches = 1,
                   !.offsets = {paginationState.nextOffset[1]}]

\* variant that removes the snapshot only on the way to the loading loop
initStateRestorationClearsLate(r) ==
  LET sn == r.stored
      cleared == [r EXCEPT !.stored = NoSnapshot, !.phase = "done"]
      target == Sanitized(sn.noteId)
      currentLoaded == paginationState.loaded
  IN CASE sn.kind = "none" -> [r EXCEPT !.phase = "done"]
       [] sn.kind \in {"unparsable", "null"} -> cleared
       [] sn.ts # "number" \/ sn.noteId = "" -> cleared
       [] Expired(sn) -> cleared
       [] target = "" -> cleared
       [] target \in NoteItems /\ InDOM(target, view) ->
            scrollToNoteAndHighlight(r)
       [] sn.loaded > currentLoaded ->
            loadNotesUntilTarget(cleared, sn.loaded, currentLoaded)
       [] OTHER ->
            IF sn.scrollPosition > 0 THEN [cleared EXCEPT !.scroll = "raw"]
            ELSE cleared

\* initStateRestoration of the commit page, run when the document is ready;
\* the container data are those the page was rendered with
initStateRestoration(r) ==
  LET sn == r.stored
      cleared == [r EXCEPT !.stored = NoSnapshot, !.phase = "done"]
      target == Sanitized(sn.noteId)
      currentLoaded == paginationState.loaded
  IN CASE sn.kind = "none" -> [r EXCEPT !.phase = "done"]
       [] sn.kind \in {"unparsable", "null"} -> cleared
       [] sn.ts # "number" \/ sn.noteId = "" -> cleared
       [] Expired(sn) -> cleared
       [] target = "" -> cleared
       [] target \in NoteItems /\ InDOM(target, view) ->
            scrollToNoteAndHighlight(cleared)
       [] sn.loaded > currentLoaded ->
            loadNotesUntilTarget(cleared, sn.loaded, currentLoaded)
       [] OTHER ->
            IF sn.scrollPosition > 0 THEN [cleared EXCEPT !.scroll = "raw"]
            ELSE cleared

\* the ready handler of field_edit_panel.js on a page that is not the commit
\* page: the note is scrolled to in the next animation frame
FallbackRestoration(r) ==
  LET sn == r.stored
      cleared == [r EXCEPT !.stored = NoSnapshot, !.phase = "done"]
      target == Sanitized(sn.noteId)
  IN CASE sn.kind = "none" -> [r EXCEPT !.phase = "done"]
       [] sn.kind \in {"unparsable", "null"} -> cleared
       [] sn.ts # "number" -> cleared
       [] Expired(sn) -> cleared
       [] sn.noteId # "" /\ target \in NoteItems /\ InDOM(target, view) ->
            [cleared EXCEPT !.phase = "frame"]
       [] OTHER -> cleared

\* $(document).ready
Ready ==
  /\ restore.phase = "ready"
  /\ restore' = IF restore.commitPage THEN initStateRestoration(restore)
                ELSE FallbackRestoration(restore)
  /\ last' = "ready"
  /\ UNCHANGED <<dispatchVars, lastResponseMeta, selectionVars, panel, toggle>>

\* one page of the restoration has arrived: its cards are appended and the
\* page is initialised again, then the loop goes on, or ends
RestoreArrive(hasTarget, n, more) ==
  /\ restore.phase = "fetching"
  /\ hasTarget => (n > 0 /\ restore.snap.noteId = "ND")
  /\ LET loaded == restore.loaded + n
         nextOffset == IF more THEN <<restore.nextOffset[1] + n>> ELSE << >>
         found == hasTarget \/ InDOM(Sanitized(restore.snap.noteId), view)
         r == [restore EXCEPT !.loaded = loaded, !.nextOffset = nextOffset]
     IN /\ loadedNotes' = loadedNotes \cup IF hasTarget THEN {"ND"} ELSE {}
        /\ IF n > 0
             THEN /\ initializePage
                  /\ checked' = checked \cup (loadedNotes' \cap selection)
                  /\ bulkBtnDisabled' = updateSelectionCount(selection)
             ELSE UNCHANGED <<content, img, handlers, checked,
                              bulkBtnDisabled>>
        /\ restore' =
             IF found THEN [r EXCEPT !.phase = "frame"]
             ELSE IF loaded >= restore.snap.loaded \/ n = 0
               THEN [r EXCEPT !.phase = "done"]
             ELSE IF r.i + 1 < r.maxIterations /\ nextOffset # << >>
               THEN [r EXCEPT !.i = @ + 1, !.fetches = @ + 1,
                              !.offsets = @ \cup {nextOffset[1]}]
             ELSE [r EXCEPT !.i = @ + 1, !.phase = "done"]
  /\ last' = "restore-page"
  /\ UNCHANGED <<page, disabled, cls, t10, t5, reqs, lastResponseMeta, view,
                 anim, dim, actionsPresent, paginationState, resolved,
                 succeeded, selection, bulkReqs, selBtnDisabled, bulkTimers,
                 srvDone, loadMore, panel, toggle>>

\* a fetch of the restoration is rejected or answered non-2xx: break
RestoreFail ==
  /\ restore.phase = "fetching"
  /\ restore' = [restore EXCEPT !.phase = "done", !.failed = TRUE]
  /\ last' = "restore-failed"
  /\ UNCHANGED <<dispatchVars, lastResponseMeta, selectionVars, panel, toggle>>

\* requestAnimationFrame: the target card is scrolled to and highlighted
RestoreFrame ==
  /\ restore.phase = "frame"
  /\ restore' = scrollToNoteAndHighlight(restore)
  /\ last' = "restore-frame"
  /\ UNCHANGED <<dispatchVars, lastResponseMeta, selectionVars, panel, toggle>>

\* a page load with whatever the session storage holds: the commit page with
\* two of three notes loaded, or with both of its two notes, or another page
RestoreInit ==
  /\ page = [items |-> {"NB"}, new |-> <<"w">>, tagClass |-> "add",
             tagName |-> <<"x">>, grouped |-> FALSE, blank |-> FALSE]
  /\ content =
       [diff |-> ServerDiff(<<"w">>, <<"w">>), original |-> getData(<<"w">>),
        pubHtml |-> Plain(unescapeHtml(getData(<<"w">>))),
        pubData |-> getData(<<"w">>), isBox |-> TRUE,
        published |-> <<Chip(<<"y">>)>>, moved |-> FALSE]
  /\ disabled = [c \in Controls |-> FALSE]
  /\ cls = {}
  /\ t10 = {}
  /\ t5 = {}
  /\ reqs = {}
  /\ lastResponseMeta = "null"
  /\ view = [i \in Items |-> "shown"]
  /\ anim = {}
  /\ dim = [i \in Items |-> FALSE]
  /\ actionsPresent = [i \in Items |-> TRUE]
  /\ paginationState \in {[loaded |-> 2, total |-> 3, nextOffset |-> <<2>>],
                          [loaded |-> 2, total |-> 2, nextOffset |-> << >>]}
  /\ resolved = [n \in NoteItems |-> 0]
  /\ succeeded = {}
  /\ last = NoEvent
  /\ selection = {}
  /\ loadedNotes = {"NA", "NB"}
  /\ checked = {}
  /\ bulkReqs = {}
  /\ bulkBtnDisabled = TRUE
  /\ selBtnDisabled = FALSE
  /\ bulkTimers = {}
  /\ srvDone = {}
  /\ loadMore = << >>
  /\ img = NoImage
  /\ handlers = 1
  /\ \E sn \in Snapshots \cup {NoSnapshot}, cp \in BOOLEAN :
       restore = [stored |-> sn, snap |-> sn, phase |-> "ready", i |-> 0,
                  maxIterations |-> 0, loaded |-> 0, nextOffset |-> << >>,
                  fetches |-> 0, scroll |-> "none", highlight |-> FALSE,
                  failed |-> FALSE, commitPage |-> cp, offsets |-> {},
                  reloaded |-> FALSE]
  /\ panel = NoPanel
  /\ toggle = NoToggle

\* the user reloads the page once the restoration is over: the server renders
\* the same first page, the session storage is what the first load has left
Reload ==
  /\ restore.phase = "done" /\ ~restore.reloaded
  /\ restore' = [NoRestore EXCEPT !.stored = restore.stored,
                                  !.snap = restore.stored,
                                  !.phase = "ready",
                                  !.commitPage = restore.commitPage,
                                  !.reloaded = TRUE]
  /\ loadedNotes' = {"NA", "NB"}
  /\ last' = "page-reload"
  /\ UNCHANGED <<page, disabled, cls, t10, t5, reqs, lastResponseMeta, view,
                 anim, dim, actionsPresent, content, paginationState,
                 resolved, succeeded, selection, checked, bulkReqs,
                 bulkBtnDisabled, selBtnDisabled, bulkTimers, srvDone,
                 loadMore, img, handlers, panel, toggle>>

RestoreNext ==
  \/ Ready
  \/ \E hasTarget \in BOOLEAN, n \in {0, 1, Limit}, more \in BOOLEAN :
       RestoreArrive(hasTarget, n, more)
  \/ RestoreFail
  \/ RestoreFrame
  \/ Reload

RestoreSpec == RestoreInit /\ [][RestoreNext]_vars

\* the same page load, with the load-more button in use as soon as it is bound
RestoreLoadNext ==
  \/ Ready
  \/ \E hasTarget \in BOOLEAN, n \in {0, 1, Limit}, more \in BOOLEAN :
       RestoreArrive(hasTarget, n, more)
  \/ RestoreFail
  \/ RestoreFrame
  \/ LoadMoreClick
  \/ LoadMoreArrive
  \/ LoadMoreFail

RestoreLoadSpec == RestoreInit /\ [][RestoreLoadNext]_vars

\* ------------------------------------------------ the edit-all-fields panel
\* a content of the response: null or a string
Null == [null |-> TRUE, v |-> << >>]
Str(v) == [null |-> FALSE, v |-> v]

\* the fields GetAllFieldsForEdit answers with for note A: the first with any
\* baseline and any suggestion of the commit (none, the empty string, a text),
\* the second a text field with or without an empty suggestion
FieldSets ==
  {<<f1, f2>> :
     f1 \in [inherited : BOOLEAN, reviewed : {Str(c) : c \in Contents \cup {<< >>}},
             suggestion : {Null, Str(<< >>), Str(<<"v">>)}],
     f2 \in [inherited : BOOLEAN, reviewed : {Str(<<"w">>)},
             suggestion : {Null, Str(<< >>)}]}

\* what the user can make of the content of an editor; "br" is a line break
EditValues == {<< >>, <<"w">>, <<"v">>, <<"w", "br">>}

\* window.scrollY at the time of a save
ScrollPositions == {0, 700}

\* data-...="${escapeAttr(content || '')}" as the browser reads it back
AttrOf(c) == IF c.null THEN << >> ELSE c.v

\* String($editor.data(name)) of such an attribute: a numeric string is read
\* as a number and written back as the same digits
DataString(attr) == getData(attr).v

\* suggestion_content !== null ? suggestion_content : reviewed_content
editorContent(f) == IF ~f.suggestion.null THEN f.suggestion ELSE f.reviewed

\* prepareContentForEditor: <ins>, <del> and image wrappers are unwrapped
prepareContentForEditor(h) == SelectSeq(h, LAMBDA x : x \notin {"ins", "del"})

\* setupFieldEditor: what the editor element is seeded with
SeededContent(f) ==
  prepareContentForEditor(
    unescapeHtml([num |-> FALSE, v |-> DataString(AttrOf(editorContent(f)))]))

\* setupFieldEditor: the baseline of the paragraph cleanup
CleanupBaseline(f) ==
  IF AttrOf(f.reviewed) # << >>
    THEN unescapeHtml([num |-> FALSE, v |-> DataString(AttrOf(f.reviewed))])
    ELSE unescapeHtml([num |-> FALSE,
                       v |-> DataString(AttrOf(editorContent(f)))])

\* stripParagraphTags: <p> / <div> wrappers are taken off unless the baseline
\* has some
stripParagraphTags(h, baseline) ==
  IF (\E k \in 1..Len(baseline) : baseline[k] = "p") THEN h
  ELSE SelectSeq(h, LAMBDA x : x # "p")

\* cleanHtmlForSave: trailing <br> are stripped
RECURSIVE cleanHtmlForSave(_)
cleanHtmlForSave(h) ==
  IF h # << >> /\ h[Len(h)] = "br"
    THEN cleanHtmlForSave(SubSeq(h, 1, Len(h) - 1)) ELSE h

\* variant that takes every editor element
AllEditors(fields) == DOMAIN fields

\* .edit-field-editor:not([data-inherited="true"])
EditableEditors(fields) == {p \in DOMAIN fields : ~fields[p].inherited}

\* collectModifiedFields: the comparison baseline is
\* suggestionContent || originalContent, both read from the data attributes
NormalizedBaseline(f) ==
  LET suggestionContent == DataString(AttrOf(f.suggestion))
      originalContent == DataString(AttrOf(f.reviewed))
      comparisonBaseline == IF suggestionContent # << >>
                              THEN suggestionContent ELSE originalContent
  IN cleanHtmlForSave(unescapeHtml([num |-> FALSE, v |-> comparisonBaseline]))

CurrentContent(pn, p) ==
  cleanHtmlForSave(stripParagraphTags(pn.editors[p],
                                      CleanupBaseline(pn.fields[p])))

collectModifiedFields(pn) ==
  {[position |-> p, content |-> CurrentContent(pn, p)] :
     p \in {q \in EditableEditors(pn.fields) :
              CurrentContent(pn, q) # NormalizedBaseline(pn.fields[q])}}

\* variant that only removes the panel
closeKeepsView(pn) == [pn EXCEPT !.exists = FALSE]

\* FieldEditPanel.close: the editors are destroyed and the panel removed, the
\* comparison and the edit button shown, the session cleared
close(pn) ==
  [pn EXCEPT !.exists = FALSE, !.comparison = TRUE, !.editBtnVisible = TRUE,
             !.active = FALSE]

\* close(activePanel.noteId) for the panel of note B
closeOther(pn) ==
  [pn EXCEPT !.other.exists = FALSE, !.other.active = FALSE]

\* open: "if (activePanel) close(activePanel.noteId)"
closeActive(pn) ==
  IF pn.active THEN close(pn)
  ELSE IF pn.other.active THEN closeOther(pn)
  ELSE pn

\* variant that stores nothing
restoreStateOmitted(scrollPosition) == NoSnapshot

\* save: the restoreState written to the session storage
restoreState(scrollPosition) ==
  [kind |-> "object", ts |-> "number", age |-> 0, noteId |-> "NA",
   loaded |-> paginationState.loaded, scrollPosition |-> scrollPosition]

\* click on "edit all fields" of note A: the dispatcher disables the button
\* and FieldEditPanel.open runs up to its fetch
OpenClick ==
  /\ ~panel.gone /\ view["NA"] # "removed"
  /\ panel.editBtnVisible /\ ~panel.editBtnDisabled
  /\ panel.opening = "none"
  /\ panel' = [closeActive(panel) EXCEPT
                 !.editBtnDisabled = TRUE, !.opening = "fetch"]
  /\ lastResponseMeta' = "null"
  /\ last' = "open"
  /\ UNCHANGED <<dispatchVars, selectionVars, restore, toggle>>

\* the fields have arrived: the session is recorded, the panel rendered with
\* empty editor elements, the comparison hidden and the panel slides down
FieldsArrive(fs) ==
  /\ ~panel.gone /\ panel.opening = "fetch"
  /\ panel' = [panel EXCEPT !.opening = "slide", !.active = TRUE,
                 !.exists = TRUE, !.fields = fs,
                 !.editors = [p \in DOMAIN fs |-> << >>],
                 !.comparison = FALSE, !.saveDisabled = FALSE,
                 !.cancelDisabled = FALSE, !.sent = {},
                 !.other.active = FALSE]
  /\ lastResponseMeta' = "plain"
  /\ last' = NoEvent
  /\ UNCHANGED <<dispatchVars, selectionVars, restore, toggle>>

\* the request fails or answers with an error: message, button restored
FieldsError ==
  /\ ~panel.gone /\ panel.opening = "fetch"
  /\ panel' = [panel EXCEPT !.opening = "none", !.editBtnDisabled = FALSE]
  /\ last' = NoEvent
  /\ UNCHANGED <<dispatchVars, lastResponseMeta, selectionVars, restore,
                 toggle>>

\* slideDown has ended: setupFieldEditor seeds every editable element
SlideDone ==
  /\ ~panel.gone /\ panel.opening = "slide"
  /\ panel' = [panel EXCEPT
                 !.opening = "init",
                 !.editors = [p \in DOMAIN panel.fields |->
                                IF p \in EditableEditors(panel.fields)
                                  THEN SeededContent(panel.fields[p])
                                  ELSE << >>]]
  /\ last' = NoEvent
  /\ UNCHANGED <<dispatchVars, lastResponseMeta, selectionVars, restore,
                 toggle>>

\* the editors are initialised: open hides the edit button and restores it
EditorsReady ==
  /\ ~panel.gone /\ panel.opening = "init"
  /\ panel' = [panel EXCEPT !.opening = "none", !.editBtnVisible = FALSE,
                            !.editBtnDisabled = FALSE]
  /\ last' = "opened"
  /\ UNCHANGED <<dispatchVars, lastResponseMeta, selectionVars, restore,
                 toggle>>

\* the user changes the content of an editor
Edit(p, v) ==
  /\ ~panel.gone /\ panel.exists /\ panel.opening = "none"
  /\ p \in EditableEditors(panel.fields)
  /\ panel.editors[p] # v
  /\ panel' = [panel EXCEPT !.editors[p] = v]
  /\ last' = "edit"
  /\ UNCHANGED <<dispatchVars, lastResponseMeta, selectionVars, restore,
                 toggle>>

\* click on "save changes": save up to its await
SaveClick ==
  /\ ~panel.gone /\ panel.exists /\ panel.active /\ ~panel.saveDisabled
  /\ LET modifiedFields == collectModifiedFields(panel)
     IN IF modifiedFields = {}
          THEN /\ panel' = [panel EXCEPT !.sent = {}]
               /\ last' = "save-nothing"
               /\ UNCHANGED lastResponseMeta
          ELSE /\ panel' = [panel EXCEPT !.saveDisabled = TRUE,
                              !.cancelDisabled = TRUE, !.inFlight = TRUE,
                              !.sent = modifiedFields]
               /\ lastResponseMeta' = "null"
               /\ last' = "save"
  /\ UNCHANGED <<dispatchVars, selectionVars, restore, toggle>>

\* the batch has been saved: the snapshot is stored and the reload is due in
\* 600 ms; the buttons stay disabled
SaveSucceeded(scrollPosition) ==
  /\ ~panel.gone /\ panel.inFlight
  /\ panel' = [panel EXCEPT !.inFlight = FALSE, !.reloadTimer = TRUE]
  /\ restore' = [restore EXCEPT !.stored = restoreState(scrollPosition)]
  /\ lastResponseMeta' = "plain"
  /\ last' = "saved"
  /\ UNCHANGED <<dispatchVars, selectionVars, toggle>>

\* the request is rejected, or answered without success (meta recorded)
SaveFailed(rejected) ==
  /\ ~panel.gone /\ panel.inFlight
  /\ panel' = [panel EXCEPT !.inFlight = FALSE, !.saveDisabled = FALSE,
                            !.cancelDisabled = FALSE]
  /\ lastResponseMeta' = IF rejected THEN lastResponseMeta ELSE "plain"
  /\ last' = "save-failed"
  /\ UNCHANGED <<dispatchVars, selectionVars, restore, toggle>>

\* window.location.reload()
ReloadTimer ==
  /\ ~panel.gone /\ panel.reloadTimer
  /\ panel' = [panel EXCEPT !.reloadTimer = FALSE, !.reloads = @ + 1,
                            !.gone = TRUE]
  /\ last' = "reload"
  /\ UNCHANGED <<dispatchVars, lastResponseMeta, selectionVars, restore,
                 toggle>>

\* click on "cancel"
CancelClick ==
  /\ ~panel.gone /\ panel.exists /\ ~panel.cancelDisabled
  /\ panel' = close(panel)
  /\ last' = "cancel"
  /\ UNCHANGED <<dispatchVars, lastResponseMeta, selectionVars, restore,
                 toggle>>

\* the commit page with its notes loaded and no panel; the session storage is
\* empty or holds the snapshot of an earlier save
PanelInit ==
  /\ page = [items |-> {"NB"}, new |-> <<"w">>, tagClass |-> "add",
             tagName |-> <<"x">>, grouped |-> FALSE, blank |-> FALSE]
  /\ content =
       [diff |-> ServerDiff(<<"w">>, <<"w">>), original |-> getData(<<"w">>),
        pubHtml |-> Plain(unescapeHtml(getData(<<"w">>))),
        pubData |-> getData(<<"w">>), isBox |-> TRUE,
        published |-> <<Chip(<<"y">>)>>, moved |-> FALSE]
  /\ disabled = [c \in Controls |-> FALSE]
  /\ cls = {}
  /\ t10 = {}
  /\ t5 = {}
  /\ reqs = {}
  /\ lastResponseMeta = "null"
  /\ view = [i \in Items |-> "shown"]
  /\ anim = {}
  /\ dim = [i \in Items |-> FALSE]
  /\ actionsPresent = [i \in Items |-> TRUE]
  /\ paginationState = [loaded |-> 2, total |-> 3, nextOffset |-> <<2>>]
  /\ resolved = [n \in NoteItems |-> 0]
  /\ succeeded = {}
  /\ last = NoEvent
  /\ selection = {}
  /\ loadedNotes = {"NA", "NB"}
  /\ checked = {}
  /\ bulkReqs = {}
  /\ bulkBtnDisabled = TRUE
  /\ selBtnDisabled = FALSE
  /\ bulkTimers = {}
  /\ srvDone = {}
  /\ loadMore = << >>
  /\ img = NoImage
  /\ handlers = 1
  /\ restore = NoRestore
  /\ panel = NoPanel
  /\ toggle = NoToggle

PanelNext ==
  \/ OpenClick
  \/ \E fs \in FieldSets : FieldsArrive(fs)
  \/ FieldsError
  \/ SlideDone
  \/ EditorsReady
  \/ \E p \in 1..2, v \in EditValues : Edit(p, v)
  \/ SaveClick
  \/ \E sp \in ScrollPositions : SaveSucceeded(sp)
  \/ \E rejected \in BOOLEAN : SaveFailed(rejected)
  \/ ReloadTimer
  \/ CancelClick

PanelSpec == PanelInit /\ [][PanelNext]_vars

\* click on "edit all fields" of note B: open runs up to its fetch
OpenOtherClick ==
  /\ ~panel.gone /\ view["NB"] # "removed"
  /\ ~panel.other.opening /\ ~panel.other.exists
  /\ panel' = [closeActive(panel) EXCEPT !.other.opening = TRUE]
  /\ lastResponseMeta' = "null"
  /\ last' = "open-other"
  /\ UNCHANGED <<dispatchVars, selectionVars, restore, toggle>>

\* the fields of note B have arrived: activePanel is overwritten and the
\* panel of B rendered in its card
OtherFieldsArrive ==
  /\ ~panel.gone /\ panel.other.opening
  /\ panel' = [panel EXCEPT
                 !.active = FALSE,
                 !.other = [opening |-> FALSE, exists |-> TRUE,
                            active |-> TRUE]]
  /\ lastResponseMeta' = "plain"
  /\ last' = "opened-other"
  /\ UNCHANGED <<dispatchVars, selectionVars, restore, toggle>>

\* the request for the fields of note B fails
OtherFieldsError ==
  /\ ~panel.gone /\ panel.other.opening
  /\ panel' = [panel EXCEPT !.other.opening = FALSE]
  /\ last' = NoEvent
  /\ UNCHANGED <<dispatchVars, lastResponseMeta, selectionVars, restore,
                 toggle>>

\* click on "cancel" in the panel of note B
CancelOtherClick ==
  /\ ~panel.gone /\ panel.other.exists
  /\ panel' = closeOther(panel)
  /\ last' = "cancel-other"
  /\ UNCHANGED <<dispatchVars, lastResponseMeta, selectionVars, restore,
                 toggle>>

\* two notes are edited on one page; the answer for note A has two text
\* fields, the first with or without a suggestion of the commit
TwoPanelNext ==
  \/ OpenClick
  \/ \E fs \in {ff \in FieldSets :
                   /\ ~ff[1].inherited /\ ff[1].reviewed = Str(<<"w">>)
                   /\ ff[1].suggestion # Str(<< >>)
                   /\ ~ff[2].inherited /\ ff[2].suggestion = Null} :
       FieldsArrive(fs)
  \/ FieldsError
  \/ SlideDone
  \/ EditorsReady
  \/ \E v \in {<<"w">>, <<"v">>} : Edit(1, v)
  \/ SaveClick
  \/ \E sp \in ScrollPositions : SaveSucceeded(sp)
  \/ \E rejected \in BOOLEAN : SaveFailed(rejected)
  \/ ReloadTimer
  \/ CancelClick
  \/ OpenOtherClick
  \/ OtherFieldsArrive
  \/ OtherFieldsError
  \/ CancelOtherClick

TwoPanelSpec == PanelInit /\ [][TwoPanelNext]_vars

\* ------------------------------------------------------ the source toggle
\* String(htmldiff(original, content)) of a field, as a sequence of pieces:
\* "w" a word, "t" a tag, "e" the text of an escaped tag, "ins" / "del" an
\* inserted / deleted run
DiffResults ==
  {<< >>, <<"w">>, <<"t", "w">>, <<"e", "t">>, <<"del", "ins">>}

\* the column of the field on the commit page; "none" on the review page,
\* which has no columns
Sides == {"leftside", "rightside", "none"}

\* fixInsDel: <ins> is removed from the left column, <del> from the right
fixInsDel(side, h) ==
  CASE side = "leftside" -> SelectSeq(h, LAMBDA x : x # "ins")
    [] side = "rightside" -> SelectSeq(h, LAMBDA x : x # "del")
    [] OTHER -> h

\* $(this).data("eval") as a condition: set and not the empty string
Truthy(ev) == ev.set /\ ev.v # << >>

\* variant that shows the source of what the field shows and restores nothing
toggleFieldOfShown(f) ==
  [f EXCEPT !.eval = [set |-> TRUE, v |-> f.res],
            !.html = IF f.eval.set
                       THEN [k \in DOMAIN f.html |->
                               IF f.html[k] \in {"e", "a"} THEN "a"
                               ELSE IF f.html[k] = "t" THEN "e"
                               ELSE f.html[k]]
                       ELSE fixInsDel(f.side, f.res)]

\* the body of the each() of toggleHTML for one field; in the source view
\* res.replace(/(<[^>]*>)/g, ...) escapes every tag but <ins> and <del>
toggleField(f) ==
  IF ~Truthy(f.eval)
    THEN [f EXCEPT !.eval = [set |-> TRUE, v |-> f.res],
                   !.html = fixInsDel(f.side,
                              [k \in DOMAIN f.res |->
                                 IF f.res[k] = "t" THEN "e" ELSE f.res[k]])]
    ELSE [f EXCEPT !.html = fixInsDel(f.side, f.eval.v),
                   !.eval = [set |-> FALSE, v |-> << >>]]

\* toggleHTML over the fields of the note: the label is written for every
\* field, so the last field decides
toggleHTML(t) ==
  [t EXCEPT
     !.fields = [k \in DOMAIN t.fields |-> toggleField(t.fields[k])],
     !.label = IF t.fields = << >> THEN t.label
               ELSE IF ~Truthy(t.fields[Len(t.fields)].eval)
                 THEN "Show HTML" ELSE "Show Source"]

\* what the note shows: the content of its fields and the label
Rendering(t) ==
  [html |-> [k \in DOMAIN t.fields |-> t.fields[k].html], label |-> t.label]

\* the ready handler: toggleHTML twice
ToggleReady ==
  /\ ~toggle.ready
  /\ toggle' = [toggleHTML(toggleHTML(toggle)) EXCEPT
                  !.ready = TRUE, !.prev = Rendering(toggle)]
  /\ last' = "ready"
  /\ UNCHANGED <<dispatchVars, lastResponseMeta, selectionVars, restore,
                 panel>>

\* click on the toggle button
ToggleClick ==
  /\ toggle.ready
  /\ toggle' = [toggleHTML(toggle) EXCEPT !.prev = Rendering(toggle)]
  /\ last' = "toggle"
  /\ UNCHANGED <<dispatchVars, lastResponseMeta, selectionVars, restore,
                 panel>>

\* the page as the template renders it: one or two fields of a note, empty,
\* with their data attributes, and the label "Show Source"
ToggleInit ==
  /\ page = [items |-> {"NB"}, new |-> <<"w">>, tagClass |-> "add",
             tagName |-> <<"x">>, grouped |-> FALSE, blank |-> FALSE]
  /\ content =
       [diff |-> ServerDiff(<<"w">>, <<"w">>), original |-> getData(<<"w">>),
        pubHtml |-> Plain(unescapeHtml(getData(<<"w">>))),
        pubData |-> getData(<<"w">>), isBox |-> TRUE,
        published |-> <<Chip(<<"y">>)>>, moved |-> FALSE]
  /\ disabled = [c \in Controls |-> FALSE]
  /\ cls = {}
  /\ t10 = {}
  /\ t5 = {}
  /\ reqs = {}
  /\ lastResponseMeta = "null"
  /\ view = [i \in Items |-> "shown"]
  /\ anim = {}
  /\ dim = [i \in Items |-> FALSE]
  /\ actionsPresent = [i \in Items |-> TRUE]
  /\ paginationState = [loaded |-> 2, total |-> 3, nextOffset |-> <<2>>]
  /\ resolved = [n \in NoteItems |-> 0]
  /\ succeeded = {}
  /\ last = NoEvent
  /\ selection = {}
  /\ loadedNotes = {"NA", "NB"}
  /\ checked = {}
  /\ bulkReqs = {}
  /\ bulkBtnDisabled = TRUE
  /\ selBtnDisabled = FALSE
  /\ bulkTimers = {}
  /\ srvDone = {}
  /\ loadMore = << >>
  /\ img = NoImage
  /\ handlers = 1
  /\ restore = NoRestore
  /\ panel = NoPanel
  /\ \E n \in 1..2 :
       \E fs \in [1..n -> [res : DiffResults, side : Sides,
                           eval : {[set |-> FALSE, v |-> << >>]},
                           html : {<< >>}]] :
         toggle = [NoToggle EXCEPT !.fields = fs]

ToggleNext ==
  \/ ToggleReady
  \/ ToggleClick

ToggleSpec == ToggleInit /\ [][ToggleNext]_vars

\* ---------------------------------------------- the diff of the source toggle
\* htmldiff(before, after): the inputs unchanged when they are equal, else the
\* baseline as a deleted run and the candidate as an inserted run
htmldiff(before, after) ==
  IF before = after THEN before.v
  ELSE (IF before.v = << >> THEN << >> ELSE <<"del">>)
       \o (IF after.v = << >> THEN << >> ELSE <<"ins">>)

\* variant that reads the candidate from the attribute itself
DiffInputsFromAttr(original, candidate) ==
  <<getData(original), [num |-> FALSE, v |-> candidate]>>

\* $(this).data("original") and $(this).data("new-content")
DiffInputs(original, candidate) ==
  <<getData(original), getData(candidate)>>

\* the page as the template renders it: a field with its two attributes,
\* whose contents as the browser reads them are words, a tag, the text of an
\* escaped tag, a number or nothing; res is String(htmldiff(original, content))
DiffInit ==
  /\ page = [items |-> {"NB"}, new |-> <<"w">>, tagClass |-> "add",
             tagName |-> <<"x">>, grouped |-> FALSE, blank |-> FALSE]
  /\ content =
       [diff |-> ServerDiff(<<"w">>, <<"w">>), original |-> getData(<<"w">>),
        pubHtml |-> Plain(unescapeHtml(getData(<<"w">>))),
        pubData |-> getData(<<"w">>), isBox |-> TRUE,
        published |-> <<Chip(<<"y">>)>>, moved |-> FALSE]
  /\ disabled = [c \in Controls |-> FALSE]
  /\ cls = {}
  /\ t10 = {}
  /\ t5 = {}
  /\ reqs = {}
  /\ lastResponseMeta = "null"
  /\ view = [i \in Items |-> "shown"]
  /\ anim = {}
  /\ dim = [i \in Items |-> FALSE]
  /\ actionsPresent = [i \in Items |-> TRUE]
  /\ paginationState = [loaded |-> 2, total |-> 3, nextOffset |-> <<2>>]
  /\ resolved = [n \in NoteItems |-> 0]
  /\ succeeded = {}
  /\ last = NoEvent
  /\ selection = {}
  /\ loadedNotes = {"NA", "NB"}
  /\ checked = {}
  /\ bulkReqs = {}
  /\ bulkBtnDisabled = TRUE
  /\ selBtnDisabled = FALSE
  /\ bulkTimers = {}
  /\ srvDone = {}
  /\ loadMore = << >>
  /\ img = NoImage
  /\ handlers = 1
  /\ restore = NoRestore
  /\ panel = NoPanel
  /\ \E b \in Contents \cup {<< >>, <<"t", "w">>},
        c \in Contents \cup {<< >>, <<"t", "w">>}, side \in Sides :
       toggle = [NoToggle EXCEPT
                   !.fields = <<[original |-> b, content |-> c,
                                 res |-> htmldiff(DiffInputs(b, c)[1],
                                                  DiffInputs(b, c)[2]),
                                 side |-> side,
                                 eval |-> [set |-> FALSE, v |-> << >>],
                                 html |-> << >>]>>]

DiffSpec == DiffInit /\ [][ToggleNext]_vars

\* ------------------------------------------------------- shared predicates
\* the control is in the document
InDocument(c) ==
  /\ ItemOf(c) \in page.items
  /\ view[CardOf(ItemOf(c))] # "removed"
  /\ view[ItemOf(c)] # "removed"
  /\ actionsPresent[ItemOf(c)]

RequestsOf(i) == {r \in reqs : ItemOf(r.ctl) = i}

\* ------------------------------------------------------------------ claims

\* C1: while the request started by a control is pending, a repeated
\* activation of that control is ignored: no control ever has more than one
\* request in flight.
C1_OneRequestPerControl ==
  \A c \in Controls : Cardinality(InFlight(c)) <= 1

\* a repeated activation was ignored while the request of the control, the
\* only one disabled on the page, is pending
C1_Witness ==
  /\ last = "ignored"
  /\ \E c \in Controls : Attached(c) /\ disabled[c]
  /\ \A c \in Controls : disabled[c] => Cardinality(InFlight(c)) = 1

\* C2: actions on the same item are serialized: for every item at most one
\* write request is in flight, whichever of its controls are activated.
C2_OneRequestPerItem ==
  \A i \in Items : Cardinality(RequestsOf(i)) <= 1

\* C3: every control that is busy (disabled) and still in the document is
\* eventually enabled again or removed from the view, also when the response
\* of its request never arrives.
C3_BusyControlRecovers ==
  \A c \in Controls :
    (disabled[c] /\ InDocument(c)) ~> (~disabled[c] \/ ~InDocument(c))

\* what the view holds of an item: diff pane and baselines of a field, the
\* published tag list of a tag proposal, the deck of a move proposal
ItemContent(i, cont) ==
  CASE i = "F" -> <<cont.diff, cont.original, cont.pubHtml, cont.pubData>>
    [] i = "T" -> <<cont.published>>
    [] i = "M" -> <<cont.moved>>
    [] OTHER -> << >>

\* C4: when a request fails (rejected or non-2xx) its item is back in Idle:
\* still in view, with the content and baseline it had when the control was
\* activated, not dimmed, no 'note:resolved' emitted, and the control present
\* and enabled.
C4_FailureReturnsToIdle ==
  [][\A r \in reqs \ reqs' :
       last' = "failure" =>
         /\ view'[ItemOf(r.ctl)] = "shown"
         /\ ItemContent(ItemOf(r.ctl), content')
              = ItemContent(ItemOf(r.ctl), r.snap)
         /\ ~dim'[ItemOf(r.ctl)]
         /\ resolved' = resolved
         /\ actionsPresent'[ItemOf(r.ctl)]
         /\ ~disabled'[r.ctl]
         /\ r.ctl \notin cls']_vars

\* C5: once a request of a field, tag or move item has succeeded, no further
\* request is issued for that item.
C5_NoRequestAfterSuccess ==
  [][\A r \in reqs' \ reqs :
       ItemOf(r.ctl) \in {"F", "T", "M"} => ItemOf(r.ctl) \notin succeeded]_vars

\* C6: when the accept of a field succeeds, the diff pane shows the tokens of
\* the candidate, none of them marked, the stored baseline is the candidate,
\* the controls of the field are gone and stay gone, and the note card and
\* the loaded / total counters are as before.
C6_FieldAccepted ==
  [][/\ \A r \in reqs \ reqs' :
          (last' = "success" /\ r.ctl = "accept-field") =>
            /\ content'.diff = Plain(Decoded(page.new))
            /\ \A k \in 1..Len(content'.diff) :
                  content'.diff[k][1] \notin {"ins", "del"}
            /\ content'.original.v = page.new
            /\ ~actionsPresent'["F"]
            /\ view'[CardOf("F")] = view[CardOf("F")]
            /\ paginationState' = paginationState
            /\ resolved' = resolved
     /\ ~actionsPresent["F"] => ~actionsPresent'["F"]]_vars

\* C7: when the accept of a tag proposal succeeds, a 'new' tag is appended to
\* the published tag list, the first published tag matching a 'removed' tag
\* leaves the list, and the proposal element leaves the view.
C7_TagAccepted ==
  [][\A r \in reqs \ reqs' :
       (last' = "success" /\ r.ctl = "accept-tag") =>
         /\ page.tagClass = "add" =>
              content'.published = Append(content.published,
                                          Chip(page.tagName))
         /\ page.tagClass = "remove" =>
              \A k \in 1..Len(content'.published) :
                content'.published[k].text = page.tagName =>
                  content'.published[k].st = "fading"
         /\ view'["T"] \in {"fading", "removed"}]_vars

\* published field content, stored baseline and published tag list
Baseline(cont) ==
  <<cont.original, cont.pubHtml, cont.pubData, cont.published>>

\* C8: when the deny of a field, tag or move item succeeds, the element of the
\* item leaves the view (it fades out and is removed, and never comes back)
\* and the baseline is what it was.
C8_DeniedItemLeaves ==
  [][/\ \A r \in reqs \ reqs' :
          (last' = "success"
             /\ r.ctl \in {"deny-field", "deny-tag", "deny-move"}) =>
            /\ view'[ItemOf(r.ctl)] \in {"fading", "removed"}
            /\ Baseline(content') = Baseline(content)
     /\ \A i \in {"F", "T", "M"} :
          /\ view[i] # "shown" => view'[i] # "shown"
          /\ view[i] = "removed" => view'[i] = "removed"]_vars

\* C9: every note card is resolved at most once, and 'note:resolved' is
\* emitted for a card only when the card is out of the view.
C9_OneNotification ==
  \A n \in NoteItems :
    /\ resolved[n] <= 1
    /\ resolved[n] > 0 => view[n] = "removed"

\* C10: when the handler of a note action resumes and the response of its
\* own request was redirected to the site root, the card and its animation
\* are untouched, nothing is notified and the control is enabled.
C10_RootRedirectIsAnomaly ==
  [][\A r \in reqs \ reqs' :
       (/\ IsNoteAction(r.ctl)
        /\ last' \in {"success", "anomaly"}
        /\ \/ r.phase = "body" /\ r.own = "root"
           \/ r.phase = "sent" /\ lastResponseMeta' = "root") =>
         /\ last' = "anomaly"
         /\ view' = view
         /\ anim' = anim
         /\ resolved' = resolved
         /\ ~disabled'[r.ctl]]_vars

\* C11: when the result of a bulk submission has been processed, the
\* selection is exactly the submitted ids that the server reported failed.
C11_SelectionIsFailedIds ==
  [][\A b \in bulkReqs \ bulkReqs' :
       last' = "bulk-done" => selection' = b.sel \ (srvDone' \ srvDone)]_vars

\* a bulk submission ended with some ids succeeded and some failed
C11_Witness ==
  /\ last = "bulk-done"
  /\ bulkTimers # {}
  /\ selection # {}
  /\ selection \cap srvDone = {}

\* C12: the outcome of a bulk submission is applied per item: a succeeded id
\* with a card has the card marked and its removal scheduled, a failed id
\* keeps its card as it is and stays selected; the card of a succeeded id is
\* notified at most once, and only when it is out of the view.
C12_BulkPerItem ==
  [][/\ \A b \in bulkReqs \ bulkReqs' :
          last' = "bulk-done" =>
            /\ \A n \in (srvDone' \ srvDone) :
                 (n \in loadedNotes /\ view[n] # "removed") =>
                   n \in bulkTimers'
            /\ \A n \in b.sel \ (srvDone' \ srvDone) :
                 n \in selection' /\ view'[n] = view[n]
     /\ \A n \in srvDone' :
          /\ resolved'[n] <= 1
          /\ resolved'[n] > 0 => view'[n] = "removed"]_vars

\* C13: while a bulk submission is in flight no checkbox, select-all or
\* deselect-all changes the selection.
C13_SelectionFrozenInFlight ==
  [][(bulkReqs # {}
        /\ last' \in {"toggled", "select-all", "deselect-all"}) =>
       selection' = selection]_vars

\* C14: what a handler writes to the selection after its await is what it
\* would have computed from the selection as stored at that moment: the
\* processing of a bulk result removes the succeeded ids and nothing else.
C14_NoStaleWrite ==
  [][\A b \in bulkReqs \ bulkReqs' :
       last' = "bulk-done" =>
         selection' = selection \ (srvDone' \ srvDone)]_vars

\* C15: select-all adds exactly the ids of the cards in the container,
\* deselect-all removes exactly those ids, and neither sends a request.
C15_SelectAllOverLoaded ==
  [][/\ last' = "select-all" =>
          selection' = selection \cup
            {n \in NoteItems : n \in loadedNotes /\ view[n] # "removed"}
     /\ last' = "deselect-all" =>
          selection' = selection \
            {n \in NoteItems : n \in loadedNotes /\ view[n] # "removed"}
     /\ last' \in {"select-all", "deselect-all"} =>
          /\ reqs' = reqs
          /\ bulkReqs' = bulkReqs
          /\ loadMore' = loadMore]_vars

\* deselect-all has left the id of the note that is not loaded selected
C15_Witness ==
  /\ last = "deselect-all"
  /\ selection = {"ND"}

\* C16: once 'note:resolved' has been emitted for a note, the selection does
\* not contain its id.
C16_SelectionReconciled ==
  \A n \in NoteItems : resolved[n] > 0 => n \notin selection

\* C17: every selected id is the id of a note whose card is loaded.
C17_SelectionWithinLoaded ==
  \A n \in selection : n \in loadedNotes /\ view[n] # "removed"

\* C18: resolving one item of a loaded page takes exactly one off loaded and
\* off total, and sends nothing: on every 'note:resolved' step the counters
\* go down by the number of cards removed in that step and no request is
\* issued.
C18_ResolveDecrementsByOne ==
  [][last' = "resolved" =>
       LET k == Cardinality({n \in NoteItems :
                               view[n] # "removed" /\ view'[n] = "removed"})
       IN /\ paginationState'.loaded = paginationState.loaded - k
          /\ paginationState'.total = paginationState.total - k
          /\ reqs' = reqs /\ loadMore' = loadMore /\ bulkReqs' = bulkReqs]_vars

\* C19: in every reachable pagination state loaded <= total, and the next
\* offset is null exactly when every unresolved note of the commit has been
\* loaded.
C19_PaginationConsistent ==
  /\ paginationState.loaded <= paginationState.total
  /\ (paginationState.nextOffset = << >>) <=>
       (UnresolvedOnServer \subseteq loadedNotes)

\* C20: a load-more response leaves the rendered state of the notes loaded
\* before it as it was (panes, image, accepted field, dimming, buttons) and
\* exactly one dispatcher is bound.
C20_LoadMoreKeepsEarlierNotes ==
  [][last' = "loaded-more" =>
       /\ content' = content
       /\ img.st \in {"loaded", "loading"} => img'.st = img.st
       /\ view' = view /\ dim' = dim /\ actionsPresent' = actionsPresent
       /\ handlers' = 1]_vars

\* C21: a stored snapshot that is older than 5 minutes, cannot be parsed or
\* lacks its numeric timestamp or its note id is removed from the storage by
\* the ready handler and nothing is done with it: no scroll, no highlight, no
\* fetch, no card appended.
C21_InvalidSnapshotDiscarded ==
  (restore.phase # "ready" /\ restore.snap.kind # "none"
     /\ \/ restore.snap.kind \in {"unparsable", "null"}
        \/ restore.snap.ts # "number"
        \/ restore.snap.noteId = ""
        \/ restore.snap.age > STATE_EXPIRY_MS) =>
    /\ restore.stored = NoSnapshot
    /\ restore.phase = "done"
    /\ restore.scroll = "none" /\ ~restore.highlight
    /\ restore.fetches = 0
    /\ loadedNotes = {"NA", "NB"}

C21_Witness ==
  /\ restore.phase = "done" /\ last = "ready"
  /\ restore.snap.kind = "object" /\ restore.snap.ts = "number"
  /\ restore.snap.noteId = "NA" /\ restore.snap.age = STATE_EXPIRY_MS + 1
  /\ restore.stored = NoSnapshot

\* C22: the restoration issues at most ceil((remembered - current) / 50) + 2
\* page fetches, whatever the pages hold; it issues none after a failed fetch
\* and none without a next offset.
C22_RestorationBounded ==
  /\ restore.fetches <=
       Ceil(Max(restore.snap.loaded - paginationState.loaded, 1), Limit) + 2
  /\ restore.phase = "fetching" => (~restore.failed /\ restore.nextOffset # << >>)

C22_Witness ==
  /\ restore.phase = "done" /\ last = "restore-page"
  /\ restore.fetches = Ceil(restore.snap.loaded - paginationState.loaded, Limit) + 2
  /\ restore.nextOffset # << >> /\ restore.loaded < restore.snap.loaded
  /\ "ND" \notin loadedNotes

\* C23: a restoration that has fetched pages and has ended scrolls to the
\* target note and highlights it when the note is in view, and to the
\* remembered scroll offset when it is not.
C23_RestorationFallsBack ==
  (restore.phase = "done" /\ restore.fetches > 0) =>
    IF InDOM(restore.snap.noteId, view)
      THEN restore.scroll = "note" /\ restore.highlight
      ELSE restore.snap.scrollPosition > 0 => restore.scroll = "raw"

\* C24: no field with inherited = true is in the payload of a save.
C24_InheritedNeverSaved ==
  \A x \in panel.sent : ~panel.fields[x.position].inherited

C24_Witness ==
  /\ last = "save" /\ panel.sent # {}
  /\ \E p \in DOMAIN panel.fields :
       /\ panel.fields[p].inherited
       /\ panel.fields[p].reviewed.v # << >>

\* C25: a save submits exactly the editable fields whose content differs from
\* what their editor is seeded with at open, and sends nothing when there is
\* no such field.
C25_SaveSubmitsChangedFields ==
  [][last' \in {"save", "save-nothing"} =>
       /\ panel'.sent =
            {[position |-> p, content |-> CurrentContent(panel, p)] :
               p \in {q \in DOMAIN panel.fields :
                        /\ ~panel.fields[q].inherited
                        /\ cleanHtmlForSave(panel.editors[q]) #
                             cleanHtmlForSave(SeededContent(panel.fields[q]))}}
       /\ panel'.inFlight = (panel'.sent # {})]_vars

\* C26: a successful save stores the snapshot and only then, once, reloads; a
\* failed save stores nothing, schedules no reload, leaves the session and
\* its edits and enables save and cancel again.
C26_SaveOutcome ==
  [][/\ last' = "saved" =>
          /\ restore'.stored.kind = "object" /\ restore'.stored.ts = "number"
          /\ restore'.stored.noteId = "NA"
          /\ panel'.reloadTimer /\ panel'.reloads = 0
     /\ last' = "reload" =>
          /\ restore.stored.kind = "object"
          /\ panel'.reloads = 1 /\ ~panel'.reloadTimer
     /\ last' = "save-failed" =>
          /\ restore' = restore
          /\ ~panel'.reloadTimer /\ panel'.reloads = 0
          /\ panel'.exists /\ panel'.active
          /\ panel'.editors = panel.editors
          /\ ~panel'.saveDisabled /\ ~panel'.cancelDisabled]_vars

C26_Witness == last = "reload" /\ panel.reloads = 1 /\ panel.gone

C28_OneRequestPerImage ==
  [][/\ img'.pending <= 1
     /\ (last' \in {"image", "image-ignored"}
           /\ img.st \in {"loading", "loaded"}) =>
          (img' = img /\ lastResponseMeta' = lastResponseMeta)]_vars

C28_Witness ==
  last = "image-ignored" /\ img.st = "loading" /\ img.pending = 1

\* C29: an element whose resolution failed shows the error placeholder and
\* stays so, without any request, whatever is clicked and however often the
\* page is prepared again, until its pane is rendered again.
C29_FailedImageStaysFailed ==
  [][(img.st = "error" /\ img'.gen = img.gen) =>
       /\ img'.st = "error" /\ Src(img') = "error"
       /\ img'.pending = img.pending /\ img'.orphans <= img.orphans]_vars

C29_Witness ==
  /\ img.st = "error" /\ img.pane = "diff"
  /\ last = "loaded-more" /\ "ND" \in loadedNotes

\* C30: after two consecutive toggles every field of the note and the label
\* show what they showed before the two toggles, whatever the diffs of the
\* fields are, the empty diff included.
C30_TwoTogglesRestore ==
  [][(last = "toggle" /\ last' = "toggle") =>
       Rendering(toggle') = toggle.prev]_vars

C30_Witness ==
  /\ last = "toggle" /\ Rendering(toggle) # toggle.prev
  /\ \E k \in DOMAIN toggle.fields : toggle.fields[k].res = << >>
  /\ \E k \in DOMAIN toggle.fields :
       toggle.fields[k].html # toggle.prev.html[k]

C32_BlankIdIsRejected ==
  [][/\ \A r \in reqs' \ reqs : normalizeNoteId(ItemIdOf(r.ctl)) # << >>
     /\ last' = "invalid" =>
          /\ reqs' = reqs /\ view' = view /\ content' = content
          /\ dim' = dim
          /\ \A c \in Controls :
               (disabled'[c] # disabled[c]) => ~disabled'[c]]_vars

\* C33: while a bulk submission is in flight the bulk approve and bulk deny
\* buttons are disabled, so that at most one submission is in flight.
C33_OneBulkInFlight ==
  /\ bulkReqs # {} => bulkBtnDisabled
  /\ Cardinality(bulkReqs) <= 1

\* C34: load-more never asks for an offset the restoration loop has asked
\* for, and once the restoration has loaded pages it starts at the cursor
\* the restoration has left.
C34_NoOffsetFetchedTwice ==
  [][last' = "load-more" =>
       /\ loadMore'[1] \notin restore.offsets
       /\ (restore.phase \in {"done", "frame"} /\ restore.fetches > 0
             /\ ~restore.failed) =>
            loadMore' = restore.nextOffset]_vars

\* C35: whenever no request, no restoration and no removal animation is
\* pending, the loaded counter equals the number of note cards in the view.
C35_LoadedCountsCards ==
  (/\ reqs = {} /\ bulkReqs = {} /\ bulkTimers = {} /\ anim = {}
   /\ loadMore = << >> /\ restore.phase = "done") =>
    paginationState.loaded =
      Cardinality({n \in NoteItems : InDOM(n, view)})

\* C36: at most one edit panel is rendered at any time and the rendered
\* panel is the one of the active session.
C36_OnePanel ==
  /\ ~(panel.exists /\ panel.other.exists)
  /\ panel.exists => panel.active
  /\ panel.other.exists => panel.other.active

\* C37: once load-more has been repeated until the next offset is null, every
\* note the server still lists as unresolved has its card in the view, also
\* when notes were resolved between two loads.
C37_NoNoteSkipped ==
  (paginationState.nextOffset = << >> /\ loadMore = << >>) =>
    \A n \in UnresolvedOnServer : n \in loadedNotes

C39_SnapshotConsumedOnce ==
  restore.phase # "ready" =>
    /\ restore.stored = NoSnapshot
    /\ restore.reloaded =>
         /\ restore.scroll = "none" /\ ~restore.highlight
         /\ restore.fetches = 0 /\ restore.phase = "done"

\* a valid snapshot whose target is on the page has been restored from and
\* is gone from the storage
C39_Witness ==
  /\ last = "ready" /\ restore.commitPage /\ restore.phase = "done"
  /\ restore.snap.kind = "object" /\ restore.snap.noteId = "NA"
  /\ restore.highlight /\ restore.stored = NoSnapshot

\* C40: from the moment the batch save request of an edit session is issued
\* until it fails, and after its success until the reload, the save and the
\* cancel button are disabled, no step is a save or a cancel, and the
\* session is not discarded.
C40_OneSavePerSession ==
  [][(panel.inFlight \/ panel.reloadTimer) =>
       /\ panel.saveDisabled /\ panel.cancelDisabled
       /\ last' \notin {"save", "save-nothing", "cancel"}
       /\ panel'.sent = panel.sent
       /\ panel'.exists = panel.exists]_vars

====
